---- MODULE Spec2Model ----
(***************************************************************************)
(* Model of the ACES co-evolutionary attack/defence simulator:             *)
(*   - the technique catalog (aces/attack/techniques.py),                  *)
(*   - the network graph and its clone (aces/network/graph.py),            *)
(*   - one attacker-vs-defender matchup (aces/simulation/engine.py,        *)
(*     aces/simulation/state.py, aces/defense/genome.py),                  *)
(*   - the attacker genetic operators (aces/attack/operators.py).          *)
(*                                                                         *)
(* Probabilities, stealth modifiers, confidences and criticalities are     *)
(* fixed-point numbers in hundredths (0.35 is 35); a product of two of     *)
(* them is in ten-thousandths.                                             *)
(***************************************************************************)
EXTENDS Integers, Sequences, FiniteSets, TLC

\* ------------------------------------------------------------------------
\* Bounds of the model
\* ------------------------------------------------------------------------

\* longest attacker genome executed by simulate in the matchup specification
MaxGenes == 3

\* config.max_attack_chain_length used by the genetic-operator specifications
MaxChainLen == 4

\* ------------------------------------------------------------------------
\* Small helpers
\* ------------------------------------------------------------------------

Range(s) == {s[i] : i \in 1..Len(s)}

Min(a, b) == IF a <= b THEN a ELSE b

Max(a, b) == IF a >= b THEN a ELSE b

\* ------------------------------------------------------------------------
\* aces/config.py
\* ------------------------------------------------------------------------

\* class Tactic, in kill-chain order
TACTIC_ORDER ==
  << "initial-access", "execution", "persistence", "privilege-escalation",
     "defense-evasion", "credential-access", "discovery", "lateral-movement",
     "collection", "exfiltration", "impact" >>

\* ------------------------------------------------------------------------
\* aces/network/assets.py
\* ------------------------------------------------------------------------

\* the order dictionary of PrivLevel.__ge__ / __gt__ / __le__ / __lt__
PrivOrder == [none |-> 0, user |-> 1, admin |-> 2, system |-> 3]

PrivLevels == {"none", "user", "admin", "system"}

\* PrivLevel.__ge__
PrivGE(a, b) == PrivOrder[a] >= PrivOrder[b]

\* PrivLevel without __lt__: the < of str, which compares the values
\* "admin" < "none" < "system" < "user"
PrivLT_OfStr(a, b) ==
  [admin |-> 0, none |-> 1, system |-> 2, user |-> 3][a]
    < [admin |-> 0, none |-> 1, system |-> 2, user |-> 3][b]

\* PrivLevel.__lt__
PrivLT(a, b) == PrivOrder[a] < PrivOrder[b]

\* PrivLevel.__gt__
PrivGT(a, b) == PrivOrder[a] > PrivOrder[b]

\* PrivLevel.__le__
PrivLE(a, b) == PrivOrder[a] <= PrivOrder[b]

HostRoles == {"workstation", "server", "domain_controller", "firewall", "database"}

\* ------------------------------------------------------------------------
\* aces/attack/techniques.py : the catalog built by _build_technique_list
\* ------------------------------------------------------------------------

TechniqueList ==
  <<
  [id |-> "T1566.001", tactic |-> "initial-access",
   preconditions |-> <<[type |-> "position_external", service_name |-> "None"]>>,
   effects |-> <<[type |-> "gain_foothold", privilege_level |-> "user", value |-> 0]>>,
   base_success_rate |-> 35],
  [id |-> "T1566.002", tactic |-> "initial-access",
   preconditions |-> <<[type |-> "position_external", service_name |-> "None"]>>,
   effects |-> <<[type |-> "gain_foothold", privilege_level |-> "user", value |-> 0]>>,
   base_success_rate |-> 30],
  [id |-> "T1190", tactic |-> "initial-access",
   preconditions |-> <<[type |-> "position_external", service_name |-> "None"], [type |-> "vulnerability_exists", service_name |-> "None"]>>,
   effects |-> <<[type |-> "gain_foothold", privilege_level |-> "user", value |-> 0]>>,
   base_success_rate |-> 70],
  [id |-> "T1133", tactic |-> "initial-access",
   preconditions |-> <<[type |-> "position_external", service_name |-> "None"], [type |-> "credential_available", service_name |-> "None"]>>,
   effects |-> <<[type |-> "gain_foothold", privilege_level |-> "None", value |-> 0]>>,
   base_success_rate |-> 85],
  [id |-> "T1078", tactic |-> "initial-access",
   preconditions |-> <<[type |-> "credential_available", service_name |-> "None"]>>,
   effects |-> <<[type |-> "gain_foothold", privilege_level |-> "None", value |-> 0]>>,
   base_success_rate |-> 90],
  [id |-> "T1059.001", tactic |-> "execution",
   preconditions |-> <<[type |-> "position_on_host", service_name |-> "None"], [type |-> "os_windows", service_name |-> "None"], [type |-> "privilege_user", service_name |-> "None"]>>,
   effects |-> <<[type |-> "execute_command", privilege_level |-> "None", value |-> 0]>>,
   base_success_rate |-> 85],
  [id |-> "T1059.004", tactic |-> "execution",
   preconditions |-> <<[type |-> "position_on_host", service_name |-> "None"], [type |-> "os_linux", service_name |-> "None"], [type |-> "privilege_user", service_name |-> "None"]>>,
   effects |-> <<[type |-> "execute_command", privilege_level |-> "None", value |-> 0]>>,
   base_success_rate |-> 90],
  [id |-> "T1047", tactic |-> "execution",
   preconditions |-> <<[type |-> "position_on_host", service_name |-> "None"], [type |-> "os_windows", service_name |-> "None"], [type |-> "privilege_admin", service_name |-> "None"]>>,
   effects |-> <<[type |-> "execute_command", privilege_level |-> "None", value |-> 0]>>,
   base_success_rate |-> 80],
  [id |-> "T1053.005", tactic |-> "persistence",
   preconditions |-> <<[type |-> "position_on_host", service_name |-> "None"], [type |-> "privilege_user", service_name |-> "None"]>>,
   effects |-> <<[type |-> "establish_persistence", privilege_level |-> "None", value |-> 0]>>,
   base_success_rate |-> 80],
  [id |-> "T1543.003", tactic |-> "persistence",
   preconditions |-> <<[type |-> "position_on_host", service_name |-> "None"], [type |-> "os_windows", service_name |-> "None"], [type |-> "privilege_admin", service_name |-> "None"]>>,
   effects |-> <<[type |-> "establish_persistence", privilege_level |-> "None", value |-> 0]>>,
   base_success_rate |-> 75],
  [id |-> "T1136.001", tactic |-> "persistence",
   preconditions |-> <<[type |-> "position_on_host", service_name |-> "None"], [type |-> "privilege_admin", service_name |-> "None"]>>,
   effects |-> <<[type |-> "establish_persistence", privilege_level |-> "None", value |-> 0], [type |-> "harvest_credentials", privilege_level |-> "None", value |-> 0]>>,
   base_success_rate |-> 90],
  [id |-> "T1068", tactic |-> "privilege-escalation",
   preconditions |-> <<[type |-> "position_on_host", service_name |-> "None"], [type |-> "privilege_user", service_name |-> "None"], [type |-> "vulnerability_exists", service_name |-> "None"]>>,
   effects |-> <<[type |-> "elevate_privilege", privilege_level |-> "admin", value |-> 0]>>,
   base_success_rate |-> 60],
  [id |-> "T1548.002", tactic |-> "privilege-escalation",
   preconditions |-> <<[type |-> "position_on_host", service_name |-> "None"], [type |-> "os_windows", service_name |-> "None"], [type |-> "privilege_user", service_name |-> "None"]>>,
   effects |-> <<[type |-> "elevate_privilege", privilege_level |-> "admin", value |-> 0]>>,
   base_success_rate |-> 65],
  [id |-> "T1134", tactic |-> "privilege-escalation",
   preconditions |-> <<[type |-> "position_on_host", service_name |-> "None"], [type |-> "privilege_admin", service_name |-> "None"]>>,
   effects |-> <<[type |-> "elevate_privilege", privilege_level |-> "system", value |-> 0]>>,
   base_success_rate |-> 75],
  [id |-> "T1070.001", tactic |-> "defense-evasion",
   preconditions |-> <<[type |-> "position_on_host", service_name |-> "None"], [type |-> "os_windows", service_name |-> "None"], [type |-> "privilege_admin", service_name |-> "None"]>>,
   effects |-> <<[type |-> "reduce_detection", privilege_level |-> "None", value |-> 30]>>,
   base_success_rate |-> 90],
  [id |-> "T1027", tactic |-> "defense-evasion",
   preconditions |-> <<[type |-> "position_on_host", service_name |-> "None"], [type |-> "privilege_user", service_name |-> "None"]>>,
   effects |-> <<[type |-> "increase_stealth", privilege_level |-> "None", value |-> 15]>>,
   base_success_rate |-> 85],
  [id |-> "T1218.011", tactic |-> "defense-evasion",
   preconditions |-> <<[type |-> "position_on_host", service_name |-> "None"], [type |-> "os_windows", service_name |-> "None"], [type |-> "privilege_user", service_name |-> "None"]>>,
   effects |-> <<[type |-> "execute_command", privilege_level |-> "None", value |-> 0], [type |-> "increase_stealth", privilege_level |-> "None", value |-> 20]>>,
   base_success_rate |-> 80],
  [id |-> "T1003.001", tactic |-> "credential-access",
   preconditions |-> <<[type |-> "position_on_host", service_name |-> "None"], [type |-> "os_windows", service_name |-> "None"], [type |-> "privilege_admin", service_name |-> "None"], [type |-> "has_credential_cache", service_name |-> "None"]>>,
   effects |-> <<[type |-> "harvest_credentials", privilege_level |-> "None", value |-> 0]>>,
   base_success_rate |-> 85],
  [id |-> "T1003.003", tactic |-> "credential-access",
   preconditions |-> <<[type |-> "position_on_host", service_name |-> "None"], [type |-> "host_is_dc", service_name |-> "None"], [type |-> "privilege_admin", service_name |-> "None"]>>,
   effects |-> <<[type |-> "harvest_credentials", privilege_level |-> "None", value |-> 0]>>,
   base_success_rate |-> 80],
  [id |-> "T1558.003", tactic |-> "credential-access",
   preconditions |-> <<[type |-> "position_internal", service_name |-> "None"], [type |-> "privilege_user", service_name |-> "None"]>>,
   effects |-> <<[type |-> "harvest_credentials", privilege_level |-> "None", value |-> 0]>>,
   base_success_rate |-> 75],
  [id |-> "T1110.003", tactic |-> "credential-access",
   preconditions |-> <<>>,
   effects |-> <<[type |-> "harvest_credentials", privilege_level |-> "None", value |-> 0]>>,
   base_success_rate |-> 20],
  [id |-> "T1018", tactic |-> "discovery",
   preconditions |-> <<[type |-> "position_internal", service_name |-> "None"], [type |-> "privilege_user", service_name |-> "None"]>>,
   effects |-> <<[type |-> "discover_hosts", privilege_level |-> "None", value |-> 0]>>,
   base_success_rate |-> 95],
  [id |-> "T1083", tactic |-> "discovery",
   preconditions |-> <<[type |-> "position_on_host", service_name |-> "None"], [type |-> "privilege_user", service_name |-> "None"]>>,
   effects |-> <<[type |-> "stage_data", privilege_level |-> "None", value |-> 0]>>,
   base_success_rate |-> 95],
  [id |-> "T1087.002", tactic |-> "discovery",
   preconditions |-> <<[type |-> "position_internal", service_name |-> "None"], [type |-> "privilege_user", service_name |-> "None"]>>,
   effects |-> <<[type |-> "discover_hosts", privilege_level |-> "None", value |-> 0]>>,
   base_success_rate |-> 90],
  [id |-> "T1021.001", tactic |-> "lateral-movement",
   preconditions |-> <<[type |-> "service_running", service_name |-> "rdp"], [type |-> "credential_available", service_name |-> "None"], [type |-> "host_not_isolated", service_name |-> "None"]>>,
   effects |-> <<[type |-> "move_laterally", privilege_level |-> "None", value |-> 0]>>,
   base_success_rate |-> 85],
  [id |-> "T1021.002", tactic |-> "lateral-movement",
   preconditions |-> <<[type |-> "service_running", service_name |-> "smb"], [type |-> "credential_available", service_name |-> "None"], [type |-> "host_not_isolated", service_name |-> "None"]>>,
   effects |-> <<[type |-> "move_laterally", privilege_level |-> "None", value |-> 0]>>,
   base_success_rate |-> 80],
  [id |-> "T1021.004", tactic |-> "lateral-movement",
   preconditions |-> <<[type |-> "service_running", service_name |-> "ssh"], [type |-> "credential_available", service_name |-> "None"], [type |-> "host_not_isolated", service_name |-> "None"]>>,
   effects |-> <<[type |-> "move_laterally", privilege_level |-> "None", value |-> 0]>>,
   base_success_rate |-> 85],
  [id |-> "T1570", tactic |-> "lateral-movement",
   preconditions |-> <<[type |-> "position_on_host", service_name |-> "None"], [type |-> "privilege_user", service_name |-> "None"], [type |-> "host_not_isolated", service_name |-> "None"]>>,
   effects |-> <<[type |-> "execute_command", privilege_level |-> "None", value |-> 0]>>,
   base_success_rate |-> 75],
  [id |-> "T1210", tactic |-> "lateral-movement",
   preconditions |-> <<[type |-> "vulnerability_exists", service_name |-> "None"], [type |-> "host_not_isolated", service_name |-> "None"]>>,
   effects |-> <<[type |-> "move_laterally", privilege_level |-> "None", value |-> 0]>>,
   base_success_rate |-> 55],
  [id |-> "T1005", tactic |-> "collection",
   preconditions |-> <<[type |-> "position_on_host", service_name |-> "None"], [type |-> "privilege_user", service_name |-> "None"]>>,
   effects |-> <<[type |-> "stage_data", privilege_level |-> "None", value |-> 0]>>,
   base_success_rate |-> 90],
  [id |-> "T1039", tactic |-> "collection",
   preconditions |-> <<[type |-> "position_internal", service_name |-> "None"], [type |-> "privilege_user", service_name |-> "None"], [type |-> "service_running", service_name |-> "smb"]>>,
   effects |-> <<[type |-> "stage_data", privilege_level |-> "None", value |-> 0]>>,
   base_success_rate |-> 85],
  [id |-> "T1048", tactic |-> "exfiltration",
   preconditions |-> <<[type |-> "position_on_host", service_name |-> "None"], [type |-> "data_staged", service_name |-> "None"], [type |-> "privilege_user", service_name |-> "None"]>>,
   effects |-> <<[type |-> "exfiltrate_data", privilege_level |-> "None", value |-> 0]>>,
   base_success_rate |-> 75],
  [id |-> "T1041", tactic |-> "exfiltration",
   preconditions |-> <<[type |-> "position_on_host", service_name |-> "None"], [type |-> "data_staged", service_name |-> "None"], [type |-> "privilege_user", service_name |-> "None"]>>,
   effects |-> <<[type |-> "exfiltrate_data", privilege_level |-> "None", value |-> 0]>>,
   base_success_rate |-> 80],
  [id |-> "T1567.002", tactic |-> "exfiltration",
   preconditions |-> <<[type |-> "position_on_host", service_name |-> "None"], [type |-> "data_staged", service_name |-> "None"], [type |-> "privilege_user", service_name |-> "None"]>>,
   effects |-> <<[type |-> "exfiltrate_data", privilege_level |-> "None", value |-> 0]>>,
   base_success_rate |-> 85],
  [id |-> "T1486", tactic |-> "impact",
   preconditions |-> <<[type |-> "position_on_host", service_name |-> "None"], [type |-> "privilege_admin", service_name |-> "None"]>>,
   effects |-> <<[type |-> "encrypt_host", privilege_level |-> "None", value |-> 0]>>,
   base_success_rate |-> 90],
  [id |-> "T1489", tactic |-> "impact",
   preconditions |-> <<[type |-> "position_on_host", service_name |-> "None"], [type |-> "privilege_admin", service_name |-> "None"]>>,
   effects |-> <<[type |-> "stop_services", privilege_level |-> "None", value |-> 0]>>,
   base_success_rate |-> 95]
  >>

\* TechniqueRegistry._techniques : id -> TechniqueDef
TechIds == {TechniqueList[i].id : i \in 1..Len(TechniqueList)}

\* TechniqueRegistry._techniques as filled by _load_techniques
Registry ==
  [t \in TechIds |-> TechniqueList[CHOOSE i \in 1..Len(TechniqueList) : TechniqueList[i].id = t]]

\* TechniqueRegistry.get
RegistryGet(technique_id) == Registry[technique_id]

\* TechniqueRegistry.get_by_tactic (as the set of ids)
GetByTactic(tactic) == {t \in TechIds : Registry[t].tactic = tactic}

\* TechniqueRegistry.get_initial_access
GetInitialAccess == GetByTactic("initial-access")

\* TechniqueRegistry.__contains__
InRegistry(technique_id) == technique_id \in TechIds

HasPrecondition(tech, ptype) ==
  \E i \in 1..Len(tech.preconditions) : tech.preconditions[i].type = ptype

HasEffect(tech, etypes) ==
  \E i \in 1..Len(tech.effects) : tech.effects[i].type \in etypes

\* ------------------------------------------------------------------------
\* The network description handed to the simulator: a four-node network in
\* the style of TopologyGenerator.corporate_medium (an internet pseudo-host,
\* a DMZ web server, a user workstation and the domain controller).
\* ------------------------------------------------------------------------

HostIds == {"external", "web-01", "ws-01", "dc-01"}

\* Host fields that no operation changes (Host in aces/network/assets.py)
HostTable ==
  [h \in HostIds |->
    CASE h = "external" ->
           [os |-> "ubuntu_22", role |-> "server", criticality |-> 0,
            services |-> {}, vulnerabilities |-> {},
            has_credential_cache |-> FALSE, segment |-> "external"]
      [] h = "web-01" ->
           [os |-> "ubuntu_22", role |-> "server", criticality |-> 30,
            services |-> {"http", "https", "ssh"}, vulnerabilities |-> {"T1190"},
            has_credential_cache |-> FALSE, segment |-> "dmz"]
      [] h = "ws-01" ->
           [os |-> "windows_10", role |-> "workstation", criticality |-> 15,
            services |-> {"smb", "rdp"}, vulnerabilities |-> {"T1068"},
            has_credential_cache |-> TRUE, segment |-> "user"]
      [] h = "dc-01" ->
           [os |-> "windows_server_2019", role |-> "domain_controller", criticality |-> 100,
            services |-> {"ldap", "kerberos", "smb", "dns", "rdp"}, vulnerabilities |-> {},
            has_credential_cache |-> TRUE, segment |-> "server"]]

\* NetworkGraph.graph : the directed reachability edges
Edges ==
  { <<"external", "web-01">>, <<"external", "ws-01">>,
    <<"web-01", "ws-01">>, <<"ws-01", "dc-01">>, <<"dc-01", "ws-01">> }

CredIds == {"cred-user-01", "cred-svc-system"}

\* Credential fields that no operation changes
CredTable ==
  [c \in CredIds |->
    CASE c = "cred-user-01" -> [privilege |-> "user", valid_on |-> {"ws-01"}]
      [] c = "cred-svc-system" -> [privilege |-> "system", valid_on |-> {"ws-01", "dc-01"}]]

\* NetworkGraph as built by add_host / add_credential: the mutable fields of
\* every Host and Credential at their defaults
NewNetwork ==
  [hosts |-> [h \in HostIds |->
                [is_compromised |-> FALSE, privilege_level |-> "none", data_staged |-> FALSE]],
   credentials |-> [c \in CredIds |-> [compromised |-> FALSE]],
   aliased |-> FALSE]

\* Host.has_service
HasService(h, service_name) == service_name \in HostTable[h].services

\* Host.has_vulnerability_for (no operation sets Vulnerability.exploited)
HasVulnerabilityFor(h, technique_id) == technique_id \in HostTable[h].vulnerabilities

\* Host.is_windows
IsWindows(h) == HostTable[h].os \in {"windows_10", "windows_server_2019"}

\* Host.is_linux
IsLinux(h) == HostTable[h].os \in {"ubuntu_22", "rhel_8"}

\* NetworkGraph.get_reachable (protocol = None)
GetReachable(host_id) == {e[2] : e \in {d \in Edges : d[1] = host_id}}

\* compromise_host without the comparison of graph.py 83: the level asked for
\* is assigned
CompromiseHost_Assigns(net, host_id, priv_level) ==
  [net EXCEPT !.hosts[host_id] =
     [@ EXCEPT !.is_compromised = TRUE, !.privilege_level = priv_level]]

\* NetworkGraph.compromise_host
CompromiseHost(net, host_id, priv_level) ==
  LET host == net.hosts[host_id]
      priv == IF PrivGE(priv_level, host.privilege_level)
                THEN priv_level ELSE host.privilege_level
  IN [net EXCEPT !.hosts[host_id] =
        [host EXCEPT !.is_compromised = TRUE, !.privilege_level = priv]]

\* harvest_credentials without the test of host.has_credential_cache
HarvestFrom_NoCacheTest(hosts, credentials, host_id) ==
  {c \in DOMAIN credentials : host_id \in credentials[c].valid_on}

\* NetworkGraph.harvest_credentials for a graph of the given hosts and
\* credentials (the ids of the credentials returned); the second disjunct of
\* the filter, any(h_id == host_id for h_id in cred.valid_on), says the same
\* as the first
HarvestFrom(hosts, credentials, host_id) ==
  IF ~hosts[host_id].has_credential_cache
    THEN {}
    ELSE {c \in DOMAIN credentials : host_id \in credentials[c].valid_on}

\* NetworkGraph.harvest_credentials on the network of the matchups
HarvestCredentials(net, host_id) == HarvestFrom(HostTable, CredTable, host_id)

\* clone that copies the host and credential dictionaries but not the objects
\* in them (no model_copy(deep=True))
Clone_Shallow(net) ==
  [hosts |-> [h \in HostIds |-> net.hosts[h]],
   credentials |-> [c \in CredIds |-> net.credentials[c]],
   aliased |-> TRUE]

\* NetworkGraph.clone : every Host and Credential is copied with
\* model_copy(deep=True), so the copy shares no object with the original
\* (aliased = FALSE); a copy that kept the same objects would carry
\* aliased = TRUE and every write to it would also be a write to the original
Clone(net) ==
  [hosts |-> [h \in HostIds |-> net.hosts[h]],
   credentials |-> [c \in CredIds |-> net.credentials[c]],
   aliased |-> FALSE]

\* ------------------------------------------------------------------------
\* aces/simulation/state.py
\* ------------------------------------------------------------------------

\* attacker_position = None (the attacker is still outside the network)
NoHost == "None"

\* SimulationState.__init__
NewSimulationState(net) ==
  [network |-> Clone(net),
   attacker_position |-> NoHost,
   compromised_hosts |-> {},
   obtained_credentials |-> {},
   persistence_hosts |-> {},
   data_exfiltrated |-> FALSE,
   isolated_hosts |-> {},
   revoked_credentials |-> {},
   events |-> << >>,
   stealth_bonus |-> 0,
   detection_reduction |-> [h \in HostIds |-> 0]]

\* MatchResult with the defaults of its dataclass fields
NewMatchResult ==
  [events |-> << >>,
   hosts_compromised |-> 0,
   max_criticality_reached |-> 0,
   credentials_obtained |-> 0,
   data_exfiltrated |-> FALSE,
   techniques_detected |-> 0,
   techniques_successful |-> 0,
   techniques_attempted |-> 0,
   kill_chain_length |-> 0]

\* get_reachable_hosts without `reachable -= self.isolated_hosts` (state.py 110)
GetReachableHosts_KeepsIsolated(st) ==
  LET start == IF st.attacker_position = NoHost
                 THEN GetReachable("external")
                 ELSE GetReachable(st.attacker_position)
      pivots == UNION {GetReachable(c) : c \in st.compromised_hosts \ st.isolated_hosts}
  IN start \cup pivots

\* SimulationState.get_reachable_hosts (the set behind the returned list)
GetReachableHosts(st) ==
  LET start == IF st.attacker_position = NoHost
                 THEN GetReachable("external")
                 ELSE GetReachable(st.attacker_position)
      pivots == UNION {GetReachable(c) : c \in st.compromised_hosts \ st.isolated_hosts}
  IN (start \cup pivots) \ st.isolated_hosts

\* SimulationState.is_host_reachable
IsHostReachable(st, target_id) ==
  IF target_id \in st.isolated_hosts
    THEN FALSE
    ELSE IF st.attacker_position = NoHost
      THEN target_id \in GetReachable("external")
      ELSE target_id \in
             (GetReachable(st.attacker_position)
                \cup UNION {GetReachable(c) : c \in st.compromised_hosts \ st.isolated_hosts})

\* SimulationState.get_attacker_privilege
GetAttackerPrivilege(st, host_id) ==
  IF host_id \notin st.compromised_hosts
    THEN "none"
    ELSE st.network.hosts[host_id].privilege_level

\* SimulationState.record_event
RecordEvent(st, event) == [st EXCEPT !.events = Append(@, event)]

\* SimEvent; effects holds the keys of the effects dictionary
SimEvent(step, technique_id, target_host, outcome, detection_rule, response_action, effects) ==
  [step |-> step, technique_id |-> technique_id, target_host |-> target_host,
   outcome |-> outcome, detection_rule |-> detection_rule,
   response_action |-> response_action, effects |-> effects]

\* ------------------------------------------------------------------------
\* aces/defense/genome.py
\* ------------------------------------------------------------------------

\* DefenseGenome.get_detection_genes (positions of the matching rules)
GetDetectionGenes(genes, technique_id) ==
  {i \in 1..Len(genes) : genes[i].technique_detected = technique_id}

\* the loop of get_detection_probability run over all rules of the genome
\* instead of the rules for the technique
BestRuleFrom_AnyTechnique(genes, technique_id, stealth_modifier, i, best) ==
  LET P == {genes[k].confidence * (100 - stealth_modifier) : k \in 1..Len(genes)}
      top == CHOOSE p \in P : \A q \in P : p >= q
  IN IF top > 0
       THEN [prob |-> top,
             rule |-> CHOOSE k \in 1..Len(genes) :
                        /\ genes[k].confidence * (100 - stealth_modifier) = top
                        /\ \A j \in 1..(k - 1) :
                             genes[j].confidence * (100 - stealth_modifier) < top]
       ELSE best

\* DefenseGenome.get_detection_probability : the loop over the matching
\* rules in list order, keeping the first rule with the highest probability
\* above zero.  The result is [prob, rule] with rule = 0 for None, else the
\* position of the rule; prob is in ten-thousandths.
RECURSIVE BestRuleFrom(_, _, _, _, _)
BestRuleFrom(genes, technique_id, stealth_modifier, i, best) ==
  IF i > Len(genes)
    THEN best
    ELSE LET prob == genes[i].confidence * (100 - stealth_modifier)
         IN IF genes[i].technique_detected = technique_id /\ prob > best.prob
              THEN BestRuleFrom(genes, technique_id, stealth_modifier, i + 1,
                                [prob |-> prob, rule |-> i])
              ELSE BestRuleFrom(genes, technique_id, stealth_modifier, i + 1, best)

GetDetectionProbability(genes, technique_id, stealth_modifier) ==
  IF GetDetectionGenes(genes, technique_id) = {}
    THEN [prob |-> 0, rule |-> 0]
    ELSE BestRuleFrom(genes, technique_id, stealth_modifier, 1, [prob |-> 0, rule |-> 0])

\* ------------------------------------------------------------------------
\* aces/simulation/engine.py : SimulationEngine
\* ------------------------------------------------------------------------

HostCriticality(h) == HostTable[h].criticality

HostOutDegree(h) == Cardinality(GetReachable(h))

\* candidates.sort(key=criticality, reverse=True); candidates[0] : the sort is
\* stable and the list order is the iteration order of a set, so any of the
\* candidates with the largest key can come first
HighestCriticality(S) == {h \in S : \A g \in S : HostCriticality(h) >= HostCriticality(g)}

\* candidates.sort(key=len(get_reachable), reverse=True); candidates[0]
MostConnected(S) == {h \in S : \A g \in S : HostOutDegree(h) >= HostOutDegree(g)}

\* _resolve_target without the early return for a technique that needs the
\* external position while the attacker is inside
ResolveTarget_AnyPosition(gene, st, tech) ==
  LET reachable == GetReachableHosts(st)
      is_foothold == HasEffect(tech, {"gain_foothold", "move_laterally"})
      has_on_host == HasPrecondition(tech, "position_on_host")
      candidates ==
        IF is_foothold
          THEN (reachable \ st.compromised_hosts) \ {"external"}
          ELSE IF has_on_host /\ st.compromised_hosts # {}
            THEN st.compromised_hosts \ st.isolated_hosts
            ELSE reachable \ {"external"}
      role_matches == {h \in candidates : HostTable[h].role = gene.target_role}
  IN IF reachable = {} THEN {}
     ELSE IF candidates = {} THEN {}
     ELSE IF gene.target_selector = "highest_criticality"
       THEN HighestCriticality(candidates)
     ELSE IF gene.target_selector = "most_connected"
       THEN MostConnected(candidates)
     ELSE IF gene.target_selector = "specific_role" /\ gene.target_role # "None"
       THEN (IF role_matches # {} THEN role_matches ELSE candidates)
     ELSE candidates

\* SimulationEngine._resolve_target : the set of hosts the call can return;
\* the empty set stands for None.  The candidates come from sets (reachable,
\* compromised_hosts), so candidates[0] and role_matches[0] are any element.
ResolveTarget(gene, st, tech) ==
  LET needs_external == HasPrecondition(tech, "position_external")
      reachable == GetReachableHosts(st)
      is_foothold == HasEffect(tech, {"gain_foothold", "move_laterally"})
      has_on_host == HasPrecondition(tech, "position_on_host")
      candidates ==
        IF is_foothold
          THEN (reachable \ st.compromised_hosts) \ {"external"}
          ELSE IF has_on_host /\ st.compromised_hosts # {}
            THEN st.compromised_hosts \ st.isolated_hosts
            ELSE reachable \ {"external"}
      role_matches == {h \in candidates : HostTable[h].role = gene.target_role}
  IN IF needs_external /\ st.attacker_position # NoHost THEN {}
     ELSE IF reachable = {} THEN {}
     ELSE IF candidates = {} THEN {}
     ELSE IF gene.target_selector = "highest_criticality"
       THEN HighestCriticality(candidates)
     ELSE IF gene.target_selector = "most_connected"
       THEN MostConnected(candidates)
     ELSE IF gene.target_selector = "specific_role" /\ gene.target_role # "None"
       THEN (IF role_matches # {} THEN role_matches ELSE candidates)
     ELSE candidates

\* _check_preconditions whose credential_available accepts a revoked
\* credential
PreconditionHolds_RevokedCounts(precond, tech, target_id, st) ==
  LET ptype == precond.type IN
  CASE ptype = "position_external" -> st.attacker_position = NoHost
    [] ptype = "position_internal" ->
         ~(st.attacker_position = NoHost /\ st.compromised_hosts = {})
    [] ptype = "position_on_host" -> target_id \in st.compromised_hosts
    [] ptype = "privilege_user" ->
         ~(PrivLT(GetAttackerPrivilege(st, target_id), "user")
             /\ target_id \notin st.compromised_hosts)
    [] ptype = "privilege_admin" ->
         ~PrivLT(GetAttackerPrivilege(st, target_id), "admin")
    [] ptype = "service_running" ->
         ~(precond.service_name # "None" /\ ~HasService(target_id, precond.service_name))
    [] ptype = "vulnerability_exists" -> HasVulnerabilityFor(target_id, tech.id)
    [] ptype = "credential_available" ->
         \E cred_id \in st.obtained_credentials :
            target_id \in CredTable[cred_id].valid_on
    [] ptype = "host_not_isolated" -> target_id \notin st.isolated_hosts
    [] ptype = "os_windows" -> IsWindows(target_id)
    [] ptype = "os_linux" -> IsLinux(target_id)
    [] ptype = "host_is_dc" -> HostTable[target_id].role = "domain_controller"
    [] ptype = "has_credential_cache" -> HostTable[target_id].has_credential_cache
    [] ptype = "data_staged" -> st.network.hosts[target_id].data_staged
    [] OTHER -> TRUE

\* one precondition of SimulationEngine._check_preconditions
PreconditionHolds(precond, tech, target_id, st) ==
  LET ptype == precond.type IN
  CASE ptype = "position_external" -> st.attacker_position = NoHost
    [] ptype = "position_internal" ->
         ~(st.attacker_position = NoHost /\ st.compromised_hosts = {})
    [] ptype = "position_on_host" -> target_id \in st.compromised_hosts
    [] ptype = "privilege_user" ->
         ~(PrivLT(GetAttackerPrivilege(st, target_id), "user")
             /\ target_id \notin st.compromised_hosts)
    [] ptype = "privilege_admin" ->
         ~PrivLT(GetAttackerPrivilege(st, target_id), "admin")
    [] ptype = "service_running" ->
         ~(precond.service_name # "None" /\ ~HasService(target_id, precond.service_name))
    [] ptype = "vulnerability_exists" -> HasVulnerabilityFor(target_id, tech.id)
    [] ptype = "credential_available" ->
         \E cred_id \in st.obtained_credentials :
            /\ cred_id \notin st.revoked_credentials
            /\ target_id \in CredTable[cred_id].valid_on
    [] ptype = "host_not_isolated" -> target_id \notin st.isolated_hosts
    [] ptype = "os_windows" -> IsWindows(target_id)
    [] ptype = "os_linux" -> IsLinux(target_id)
    [] ptype = "host_is_dc" -> HostTable[target_id].role = "domain_controller"
    [] ptype = "has_credential_cache" -> HostTable[target_id].has_credential_cache
    [] ptype = "data_staged" -> st.network.hosts[target_id].data_staged
    [] OTHER -> TRUE

\* _check_preconditions that returns after the first precondition
CheckPreconditions_FirstOnly(tech, target_id, st) ==
  \A i \in 1..Min(1, Len(tech.preconditions)) :
     PreconditionHolds(tech.preconditions[i], tech, target_id, st)

\* SimulationEngine._check_preconditions
CheckPreconditions(tech, target_id, st) ==
  \A i \in 1..Len(tech.preconditions) :
     PreconditionHolds(tech.preconditions[i], tech, target_id, st)

\* SimulationEngine._check_detection; u is the value of rng.random() in
\* hundredths (drawn only when the probability is positive).  The result is
\* [detected, rule] with rule = 0 for None.
CheckDetection(technique_id, stealth_modifier, genes, host_reduction, u) ==
  LET best == GetDetectionProbability(genes, technique_id, stealth_modifier)
      prob == Max(0, best.prob - host_reduction * 100)
  IN IF prob <= 0 \/ best.rule = 0
       THEN [detected |-> FALSE, rule |-> 0]
       ELSE IF u * 100 < prob
         THEN [detected |-> TRUE, rule |-> best.rule]
         ELSE [detected |-> FALSE, rule |-> 0]

\* _apply_response whose isolate-host branch also takes the host out of the
\* compromised set
ApplyResponse_IsolateEvicts(response, target_host, st) ==
  IF response = "isolate_host"
    THEN [st EXCEPT !.isolated_hosts = @ \cup {target_host},
                    !.compromised_hosts = @ \ {target_host}]
  ELSE IF response = "revoke_credential"
    THEN [st EXCEPT !.revoked_credentials =
            @ \cup {c \in st.obtained_credentials : target_host \in CredTable[c].valid_on}]
  ELSE st

\* SimulationEngine._apply_response
ApplyResponse(response, target_host, st) ==
  IF response = "isolate_host"
    THEN [st EXCEPT !.isolated_hosts = @ \cup {target_host}]
  ELSE IF response = "revoke_credential"
    THEN [st EXCEPT !.revoked_credentials =
            @ \cup {c \in st.obtained_credentials : target_host \in CredTable[c].valid_on}]
  ELSE st

\* the privilege a foothold or lateral move takes from the obtained
\* credentials: the loop stops at the first credential that is valid on the
\* target and not revoked, in the iteration order of the obtained set, so
\* any such credential can be the one used
InheritedPrivileges(st, target_id, priv) ==
  LET usable == {c \in st.obtained_credentials :
                   target_id \in CredTable[c].valid_on /\ c \notin st.revoked_credentials}
  IN IF usable = {}
       THEN {priv}
       ELSE {IF PrivGE(CredTable[c].privilege, priv) THEN CredTable[c].privilege ELSE priv
               : c \in usable}

\* gain_foothold / move_laterally without compromised_hosts.add(target_id)
TakeHost_PositionOnly(st, target_id, priv) ==
  [st EXCEPT !.network = CompromiseHost(st.network, target_id, priv),
             !.attacker_position = target_id]

\* the state after compromise_host, compromised_hosts.add and the move of the
\* attacker position (gain_foothold and move_laterally)
TakeHost(st, target_id, priv) ==
  [st EXCEPT !.network = CompromiseHost(st.network, target_id, priv),
             !.compromised_hosts = @ \cup {target_id},
             !.attacker_position = target_id]

\* one iteration of the loop of SimulationEngine._apply_effects : the set of
\* [st, keys] the effect can lead to from the state st and the keys of the
\* effects dictionary filled so far
ApplyEffect(effect, tech, target_id, st, keys) ==
  LET etype == effect.type IN
  CASE etype = "gain_foothold" ->
         LET base == IF effect.privilege_level = "admin" THEN "admin"
                     ELSE IF effect.privilege_level = "system" THEN "system"
                     ELSE "user"
             privs == IF HasPrecondition(tech, "credential_available")
                        THEN InheritedPrivileges(st, target_id, base)
                        ELSE {base}
         IN {[st |-> TakeHost(st, target_id, priv),
              keys |-> keys \cup {"compromised", "privilege"}] : priv \in privs}
    [] etype = "elevate_privilege" ->
         LET priv == IF effect.privilege_level = "system" THEN "system" ELSE "admin"
         IN {[st |-> [st EXCEPT !.network = CompromiseHost(st.network, target_id, priv)],
              keys |-> keys \cup {"elevated"}]}
    [] etype = "harvest_credentials" ->
         LET harvested == HarvestCredentials(st.network, target_id)
             added == harvested \ st.revoked_credentials
         IN {[st |-> [st EXCEPT
                        !.obtained_credentials = @ \cup added,
                        !.network.credentials =
                           [c \in CredIds |->
                              IF c \in added THEN [@[c] EXCEPT !.compromised = TRUE]
                                             ELSE @[c]]],
              keys |-> keys \cup {"credentials_harvested"}]}
    [] etype = "establish_persistence" ->
         {[st |-> [st EXCEPT !.persistence_hosts = @ \cup {target_id}],
           keys |-> keys \cup {"persistence"}]}
    [] etype = "move_laterally" ->
         {[st |-> TakeHost(st, target_id, priv),
           keys |-> keys \cup {"moved_to", "privilege"}]
            : priv \in InheritedPrivileges(st, target_id, "user")}
    [] etype = "exfiltrate_data" ->
         {[st |-> [st EXCEPT !.data_exfiltrated = TRUE],
           keys |-> keys \cup {"exfiltrated"}]}
    [] etype = "execute_command" ->
         {[st |-> st, keys |-> keys \cup {"command_executed"}]}
    [] etype = "discover_hosts" ->
         {[st |-> st,
           keys |-> IF HostTable[target_id].segment # ""
                      THEN keys \cup {"discovered_hosts"} ELSE keys]}
    [] etype = "reduce_detection" ->
         {[st |-> [st EXCEPT !.detection_reduction[target_id] = @ + effect.value],
           keys |-> keys \cup {"detection_reduced"}]}
    [] etype = "increase_stealth" ->
         {[st |-> [st EXCEPT !.stealth_bonus = @ + effect.value],
           keys |-> keys \cup {"stealth_bonus"}]}
    [] etype = "stage_data" ->
         {[st |-> [st EXCEPT !.network.hosts[target_id].data_staged = TRUE],
           keys |-> keys \cup {"data_staged"}]}
    [] etype = "encrypt_host" ->
         {[st |-> st, keys |-> keys \cup {"encrypted"}]}
    [] etype = "stop_services" ->
         {[st |-> st, keys |-> keys \cup {"services_stopped"}]}
    [] OTHER -> {[st |-> st, keys |-> keys]}

\* SimulationEngine._apply_effects : the effects of the technique applied in
\* list order from position i on, starting from any of the outcomes in S
RECURSIVE ApplyEffectsFrom(_, _, _, _)
ApplyEffectsFrom(S, tech, target_id, i) ==
  IF i > Len(tech.effects)
    THEN S
    ELSE ApplyEffectsFrom(
           UNION {ApplyEffect(tech.effects[i], tech, target_id, o.st, o.keys) : o \in S},
           tech, target_id, i + 1)

ApplyEffects(tech, target_id, st) ==
  ApplyEffectsFrom({[st |-> st, keys |-> {}]}, tech, target_id, 1)

\* ------------------------------------------------------------------------
\* Inputs of a matchup
\* ------------------------------------------------------------------------

\* AttackGene
AttackGene(technique_id, target_selector, target_role, fallback_technique, stealth_modifier) ==
  [technique_id |-> technique_id, target_selector |-> target_selector,
   target_role |-> target_role, fallback_technique |-> fallback_technique,
   stealth_modifier |-> stealth_modifier]

\* the genes an attacker genome handed to simulate is made of
AttackGenes ==
  { AttackGene("T1566.001", "random_reachable", "None", "None", 0),
    AttackGene("T1110.003", "specific_role", "workstation", "None", 0),
    AttackGene("T1078", "highest_criticality", "None", "T1566.001", 50),
    AttackGene("T1548.002", "most_connected", "None", "None", 0),
    AttackGene("T1136.001", "least_defended", "None", "T1027", 100),
    AttackGene("T1005", "random_reachable", "None", "None", 0),
    AttackGene("T1041", "specific_role", "None", "T1021.002", 0),
    AttackGene("T1070.001", "random_reachable", "None", "None", 0),
    AttackGene("T1021.002", "highest_criticality", "None", "None", 0),
    AttackGene("T1018", "most_connected", "None", "T1134", 0) }

\* DetectionGene
DetectionGene(technique_detected, detection_logic, confidence, false_positive_rate, response_action) ==
  [technique_detected |-> technique_detected, detection_logic |-> detection_logic,
   confidence |-> confidence, false_positive_rate |-> false_positive_rate,
   response_action |-> response_action]

\* the defender genomes (rule lists) handed to simulate
Defenders ==
  { << >>,
    << DetectionGene("T1566.001", "signature", 50, 5, "alert_only"),
       DetectionGene("T1566.001", "behavioral", 95, 5, "isolate_host"),
       DetectionGene("T1078", "correlation", 90, 5, "revoke_credential"),
       DetectionGene("T1005", "signature", 30, 5, "block_traffic") >>,
    << DetectionGene("T1548.002", "ml_anomaly", 100, 10, "isolate_host"),
       DetectionGene("T1110.003", "signature", 60, 5, "kill_process"),
       DetectionGene("T1041", "behavioral", 80, 10, "revoke_credential") >> }

\* the values rng.random() returns, in hundredths
Draws == {0, 20, 99}

\* ------------------------------------------------------------------------
\* State
\* ------------------------------------------------------------------------

VARIABLES
  pc,                     \* "idle", "running" (inside simulate's loop), "done"
  network,                \* the base NetworkGraph handed to every simulate call
  attacker,               \* the genes of attacker.genes executed so far
  defender,               \* defender.genes
  state,                  \* simulate's SimulationState
  result,                 \* simulate's MatchResult
  consecutive_successes,  \* local of simulate
  max_consecutive         \* local of simulate

simVars ==
  << pc, network, attacker, defender, state, result,
     consecutive_successes, max_consecutive >>

\* the genetic operators on attacker genomes (aces/attack/operators.py)
VARIABLES
  individual,   \* the genome create_random_attacker returned and mutate_attack changes
  ind1, ind2,   \* the parents handed to crossover_attack
  child1, child2 \* the children crossover_attack returned

atkVars == << individual, ind1, ind2, child1, child2 >>

\* the genetic operators on defender genomes (aces/defense/operators.py)
VARIABLES
  def1, def2,   \* two defender genomes of the offspring list of vary_defenders
  def_calls     \* number of crossover_defense and mutate_defense calls so far

defVars == << def1, def2, def_calls >>

\* the evaluation of the attackers by CoevolutionEngine (aces/evolution/coevolution.py)
VARIABLES
  engine,       \* 0: no CoevolutionEngine; 1, 2: the first, the second engine made
  attackers,    \* the attacker population of the engine (the genes of each genome)
  defenders,    \* the defender population of the engine (the genes of each genome)
  ind_index,    \* the position in `attackers` the loop of the evaluation is at
  rng,          \* how many values self.rng has returned since Random(config.seed)
  matchups      \* per engine, the matchups simulated so far

evalVars == << engine, attackers, defenders, ind_index, rng, matchups >>

\* the loop of CoevolutionEngine.run (aces/evolution/coevolution.py)
VARIABLES
  phase,            \* "idle"; "evaluate", "select", "diversity": where the loop is; "done"
  num_generations,  \* config.num_generations
  gen,              \* the loop variable of `for gen in range(num_generations)`
  followed,         \* which of the two populations is followed: "attacker" or "defender"
  pop,              \* the list `attackers` (or `defenders`) of run: genes and fitness
  hall_of_fame,     \* self.attacker_hof (or self.defender_hof)
  history,          \* self.metrics.history
  on_generation,    \* whether run was given a callback (on_generation is not None)
  calls             \* the calls of the callback so far, with their arguments

runVars ==
  << phase, num_generations, gen, followed, pop, hall_of_fame, history,
     on_generation, calls >>

\* the choice of the opponents of one individual (aces/evolution/coevolution.py)
VARIABLES
  matchups_per_eval,      \* config.matchups_per_eval
  hof_opponent_fraction,  \* config.hof_opponent_fraction, in hundredths
  opp_population,         \* how many individuals the opposing population holds
  opp_hof,                \* how many members the opposing hall of fame holds
  opponents               \* the list `opponents` the individual is simulated against

oppVars ==
  << matchups_per_eval, hof_opponent_fraction, opp_population, opp_hof, opponents >>

\* a MetricsCollector used on its own (aces/evolution/metrics.py)
VARIABLES
  collector,          \* whether the history is the one of a collector used on its own
  stagnation_window,  \* the argument window of the last detect_stagnation call (0: no call yet)
  stagnation          \* what that call returned

stagVars == << collector, stagnation_window, stagnation >>

\* the construction and the start of a driver from a configuration
\* (aces/config.py, aces/evolution/coevolution.py)
VARIABLES
  config,           \* the Config handed to CoevolutionEngine (the fields followed here)
  driver,           \* "none", "constructed", "running", "raised", "returned"
  generations_run   \* how many passes of the loop of run are over

cfgVars == << config, driver, generations_run >>

\* the scoring of match results and of defender genomes (aces/simulation/scoring.py)
VARIABLES
  match_results,     \* two match results, each scored on its own
  genomes,           \* two defender genomes, evaluated on one of the results each
  attacker_fitness,  \* what compute_attacker_fitness returned for each result
  defender_fitness   \* the fitness.values each defender was assigned

scoreVars == << match_results, genomes, attacker_fitness, defender_fitness >>

\* a NetworkGraph and PrivLevel values used on their own (aces/network)
VARIABLES
  graph,         \* the hosts and the credentials registered in a NetworkGraph
  harvest_host,  \* the argument of the last harvest_credentials call ("none" before it)
  harvested,     \* the ids of the credentials that call returned
  levels,        \* three PrivLevel values
  comparisons    \* what the six comparisons returned for the pairs of `levels`

assetVars == << graph, harvest_host, harvested, levels, comparisons >>

\* the loop of run with the individuals as objects (aces/evolution/coevolution.py)
VARIABLES
  run_phase,      \* the part of the loop body run next ("idle" outside run)
  run_gen,        \* the loop variable gen
  run_total,      \* config.num_generations
  run_followed,   \* the population followed: "attacker" or "defender"
  heap,           \* the genome objects: genes and fitness.values[0] of each
  members,        \* the list `attackers` (or `defenders`): references to objects
  hof_members,    \* self.attacker_hof (or self.defender_hof): references to objects
  run_history     \* self.metrics.history

loopVars ==
  << run_phase, run_gen, run_total, run_followed, heap, members, hof_members,
     run_history >>

\* the variables of that loop while run has not been called
LoopIdle ==
  /\ run_phase = "idle"
  /\ run_gen = 0
  /\ run_total = 0
  /\ run_followed = "none"
  /\ heap = << >>
  /\ members = << >>
  /\ hof_members = << >>
  /\ run_history = << >>

\* the success roll of a step on its own (aces/simulation/engine.py 95-105)
VARIABLES
  roll_rate,     \* tech.base_success_rate, in hundredths
  roll_draw,     \* the value self.rng.random() returned, in hundredths
  roll_outcome   \* "pending", then "passed" or "failed"

rollVars == << roll_rate, roll_draw, roll_outcome >>

\* the variables of the success roll while none is made on its own
RollIdle ==
  /\ roll_rate = 0
  /\ roll_draw = 0
  /\ roll_outcome = "idle"

VARIABLES
  web_running,    \* _state.running of the web server
  handler_pc,     \* for each POST /api/run, where its handler thread is
  response,       \* for each POST /api/run, the status it was answered with
  sim_thread      \* for each POST /api/run, the background thread it started

webVars == << web_running, handler_pc, response, sim_thread >>

\* the variables of the web server while no server runs
WebIdle ==
  /\ web_running = FALSE
  /\ handler_pc = << >>
  /\ response = << >>
  /\ sim_thread = << >>

vars ==
  << simVars, atkVars, defVars, evalVars, runVars, oppVars, stagVars,
     cfgVars, scoreVars, assetVars, loopVars, rollVars, webVars >>

\* the variables a step of simulate leaves alone
notSimVars == << atkVars, defVars, evalVars, runVars, oppVars, stagVars, cfgVars, scoreVars, assetVars, loopVars, rollVars, webVars >>

\* the variables the attacker operators leave alone
notAtkVars == << simVars, defVars, evalVars, runVars, oppVars, stagVars, cfgVars, scoreVars, assetVars, loopVars, rollVars, webVars >>

\* the variables the defender operators leave alone
notDefVars == << simVars, atkVars, evalVars, runVars, oppVars, stagVars, cfgVars, scoreVars, assetVars, loopVars, rollVars, webVars >>

\* the variables the evaluation, with its calls of simulate, leaves alone
notEvalVars == << atkVars, defVars, runVars, oppVars, stagVars, cfgVars, scoreVars, assetVars, loopVars, rollVars, webVars >>

\* the variables the loop of run leaves alone
notRunVars == << simVars, atkVars, defVars, evalVars, oppVars, stagVars, cfgVars, scoreVars, assetVars, loopVars, rollVars, webVars >>

\* the variables of the network assets while none is used on its own
AssetIdle ==
  /\ graph = [hosts |-> << >>, credentials |-> << >>]
  /\ harvest_host = "none"
  /\ harvested = {}
  /\ levels = << >>
  /\ comparisons = << >>

\* the variables of the construction while no configuration is in use
CfgIdle ==
  /\ config = [population_size |-> 0, defender_budget |-> 0, num_generations |-> 0]
  /\ driver = "none"
  /\ generations_run = 0

\* the variables of the scoring while nothing is scored
ScoreIdle ==
  /\ match_results = << >>
  /\ genomes = << >>
  /\ attacker_fitness = << >>
  /\ defender_fitness = << >>

\* the variables the choice of the opponents leaves alone
notOppVars == << simVars, atkVars, defVars, evalVars, runVars, stagVars, cfgVars, scoreVars, assetVars, loopVars, rollVars, webVars >>

\* the variables of the choice of the opponents while no individual is evaluated
OppIdle ==
  /\ matchups_per_eval = 0
  /\ hof_opponent_fraction = 0
  /\ opp_population = 0
  /\ opp_hof = 0
  /\ opponents = << >>

\* the variables of a collector used on its own while there is none
StagIdle ==
  /\ collector = FALSE
  /\ stagnation_window = 0
  /\ stagnation = FALSE

\* the variables of the loop of run while run has not been called
RunIdle ==
  /\ phase = "idle"
  /\ num_generations = 0
  /\ gen = 0
  /\ followed = "none"
  /\ pop = << >>
  /\ hall_of_fame = << >>
  /\ history = << >>
  /\ on_generation = FALSE
  /\ calls = << >>

\* the variables of the evaluation while no engine exists
EvalIdle ==
  /\ engine = 0
  /\ attackers = << >>
  /\ defenders = << >>
  /\ ind_index = 0
  /\ rng = 0
  /\ matchups = << << >>, << >> >>

\* DefenseGenome
DefenseGenome(genes, budget) == [genes |-> genes, budget |-> budget]

\* the variables of the defender operators while no operator is in use
DefIdle ==
  /\ def1 = DefenseGenome(<< >>, 0)
  /\ def2 = DefenseGenome(<< >>, 0)
  /\ def_calls = 0

\* AttackGenome
AttackGenome(genes, max_length) == [genes |-> genes, max_length |-> max_length]

\* no genome (None)
NoGenome == AttackGenome(<< >>, 0)

\* the variables of the genetic operators while no operator is in use
AtkIdle ==
  /\ individual = NoGenome
  /\ ind1 = NoGenome
  /\ ind2 = NoGenome
  /\ child1 = NoGenome
  /\ child2 = NoGenome

\* the variables of simulate while no matchup has been started
SimIdle ==
  /\ pc = "idle"
  /\ network = NewNetwork
  /\ attacker = << >>
  /\ defender = << >>
  /\ state = NewSimulationState(NewNetwork)
  /\ result = NewMatchResult
  /\ consecutive_successes = 0
  /\ max_consecutive = 0

\* the base network after a write to the working copy: unchanged unless the
\* working copy shares its Host and Credential objects with it
BaseAfter(base, working) ==
  IF working.aliased
    THEN [base EXCEPT !.hosts = working.hosts, !.credentials = working.credentials]
    ELSE base

Init == SimIdle /\ AtkIdle /\ DefIdle /\ EvalIdle /\ RunIdle /\ OppIdle /\ StagIdle /\ CfgIdle /\ ScoreIdle /\ AssetIdle /\ LoopIdle /\ RollIdle /\ WebIdle

\* engine.py 36-43 : simulate is called with a defender of D; the state and the
\* result are created
SimulateStartWith(D) ==
  /\ pc \in {"idle", "done"}
  /\ pc' = "running"
  /\ \E d \in D : defender' = d
  /\ attacker' = << >>
  /\ state' = NewSimulationState(network)
  /\ result' = NewMatchResult
  /\ consecutive_successes' = 0
  /\ max_consecutive' = 0
  /\ UNCHANGED network

\* simulate is called with any of the defenders
SimulateStart == SimulateStartWith(Defenders) /\ UNCHANGED notSimVars

\* the three "record a precondition failure and continue" exits of the loop
StepFails(step, technique_id, target_host, effects) ==
  /\ state' = RecordEvent(state,
                 SimEvent(step, technique_id, target_host, "precondition_failure",
                          "None", "None", effects))
  /\ result' = [result EXCEPT !.techniques_attempted = @ + 1]
  /\ consecutive_successes' = 0
  /\ UNCHANGED max_consecutive

\* StepDetected with the `continue` of engine.py 130 lost: after the response
\* the effects of the technique are applied as well
StepDetected_AppliesEffects(step, tech, target_id, rule) ==
  \E o \in ApplyEffects(tech, target_id, ApplyResponse(rule.response_action, target_id, state)) :
    /\ state' = RecordEvent(o.st,
                   SimEvent(step, tech.id, target_id, "detected",
                            rule.technique_detected, rule.response_action, {}))
    /\ result' = [result EXCEPT !.techniques_attempted = @ + 1,
                                !.techniques_detected = @ + 1]
    /\ consecutive_successes' = 0
    /\ UNCHANGED max_consecutive

\* the detected branch without state.record_event
StepDetected_NoEvent(step, tech, target_id, rule) ==
  /\ state' = ApplyResponse(rule.response_action, target_id, state)
  /\ result' = [result EXCEPT !.techniques_attempted = @ + 1,
                              !.techniques_detected = @ + 1]
  /\ consecutive_successes' = 0
  /\ UNCHANGED max_consecutive

\* the detected branch without `consecutive_successes = 0`
StepDetected_KeepsRun(step, tech, target_id, rule) ==
  /\ state' = RecordEvent(ApplyResponse(rule.response_action, target_id, state),
                 SimEvent(step, tech.id, target_id, "detected",
                          rule.technique_detected, rule.response_action, {}))
  /\ result' = [result EXCEPT !.techniques_attempted = @ + 1,
                              !.techniques_detected = @ + 1]
  /\ UNCHANGED << consecutive_successes, max_consecutive >>

\* engine.py 118-130 : the step is detected
StepDetected(step, tech, target_id, rule) ==
  /\ state' = RecordEvent(ApplyResponse(rule.response_action, target_id, state),
                 SimEvent(step, tech.id, target_id, "detected",
                          rule.technique_detected, rule.response_action, {}))
  /\ result' = [result EXCEPT !.techniques_attempted = @ + 1,
                              !.techniques_detected = @ + 1]
  /\ consecutive_successes' = 0
  /\ UNCHANGED max_consecutive

\* engine.py 132-144 : the technique succeeds
StepSucceeds(step, tech, target_id) ==
  \E o \in ApplyEffects(tech, target_id, state) :
    /\ state' = RecordEvent(o.st,
                   SimEvent(step, tech.id, target_id, "success", "None", "None", o.keys))
    /\ result' = [result EXCEPT !.techniques_attempted = @ + 1,
                                !.techniques_successful = @ + 1]
    /\ consecutive_successes' = consecutive_successes + 1
    /\ max_consecutive' = Max(max_consecutive, consecutive_successes + 1)

\* engine.py 96 : `if self.rng.random() > tech.base_success_rate` records the
\* failure; the roll passes otherwise
RollPasses(u, base_success_rate) == ~(u > base_success_rate)

\* engine.py 95-144 : success roll, detection roll, effects; U and V are the
\* values the first and the second rng.random() of the step can return
StepExecutes(step, gene, tech, target_id, U, V) ==
  \E u \in U :
    IF ~RollPasses(u, tech.base_success_rate)
      THEN StepFails(step, tech.id, target_id, {"reason"})
      ELSE LET effective_stealth == Min(100, gene.stealth_modifier + state.stealth_bonus)
               host_reduction == state.detection_reduction[target_id]
           IN \E v \in V :
                LET d == CheckDetection(tech.id, effective_stealth, defender,
                                        host_reduction, v)
                IN IF d.detected /\ d.rule # 0
                     THEN StepDetected(step, tech, target_id, defender[d.rule])
                     ELSE StepSucceeds(step, tech, target_id)

\* engine.py 47-57 : the technique and the target the step goes on with
\* (target = NoHost when neither the technique nor its fallback has one)
Resolutions(gene, st) ==
  LET first == ResolveTarget(gene, st, RegistryGet(gene.technique_id))
      has_fallback == gene.fallback_technique # "None" /\ InRegistry(gene.fallback_technique)
      second == IF has_fallback
                  THEN ResolveTarget(gene, st, RegistryGet(gene.fallback_technique))
                  ELSE {}
  IN IF first # {}
       THEN {[tech |-> gene.technique_id, target |-> t] : t \in first}
       ELSE IF second # {}
         THEN {[tech |-> gene.fallback_technique, target |-> t] : t \in second}
         ELSE {[tech |-> gene.technique_id, target |-> NoHost]}

\* engine.py 45-144 : one iteration of the loop over attacker.genes, for a
\* gene of S and rng.random() values of U and V
SimulateStepWith(S, U, V) ==
  /\ pc = "running"
  /\ \E gene \in S :
       /\ attacker' = Append(attacker, gene)
       /\ \E r \in Resolutions(gene, state) :
            LET step == Len(attacker)
                tech == RegistryGet(r.tech)
                has_fallback == gene.fallback_technique # "None"
                                  /\ InRegistry(gene.fallback_technique)
            IN IF r.target = NoHost
                 THEN StepFails(step, gene.technique_id, "none", {})
               ELSE IF CheckPreconditions(tech, r.target, state)
                 THEN StepExecutes(step, gene, tech, r.target, U, V)
               ELSE IF has_fallback
                         /\ CheckPreconditions(RegistryGet(gene.fallback_technique),
                                               r.target, state)
                 THEN StepExecutes(step, gene, RegistryGet(gene.fallback_technique), r.target, U, V)
               ELSE StepFails(step, gene.technique_id, r.target, {})
  /\ network' = BaseAfter(network, state'.network)
  /\ UNCHANGED << pc, defender >>

\* one iteration of the loop for any gene and any values of rng.random()
SimulateStep ==
  /\ Len(attacker) < MaxGenes
  /\ SimulateStepWith(AttackGenes, Draws, Draws)
  /\ UNCHANGED notSimVars

\* engine.py 146-159 : the loop is over, the result is completed and returned
SimulateReturn ==
  /\ pc = "running"
  /\ pc' = "done"
  /\ result' =
       [result EXCEPT
          !.hosts_compromised = Cardinality(state.compromised_hosts),
          !.credentials_obtained = Cardinality(state.obtained_credentials),
          !.data_exfiltrated = state.data_exfiltrated,
          !.kill_chain_length = max_consecutive,
          !.events = state.events,
          !.max_criticality_reached =
             IF state.compromised_hosts # {}
               THEN CHOOSE m \in {HostCriticality(h) : h \in state.compromised_hosts} :
                      \A h \in state.compromised_hosts : m >= HostCriticality(h)
               ELSE @]
  /\ UNCHANGED << network, attacker, defender, state, consecutive_successes,
                  max_consecutive >>

\* the loop is over once the genes of the genome (two at least) are executed
SimulateFinish ==
  /\ Len(attacker) >= 2
  /\ SimulateReturn
  /\ UNCHANGED notSimVars

Next == SimulateStart \/ SimulateStep \/ SimulateFinish

Spec == Init /\ [][Next]_vars

\* ------------------------------------------------------------------------
\* Properties of one matchup
\* ------------------------------------------------------------------------

\* a step of the loop of simulate has just been executed
StepTaken ==
  /\ pc = "running"
  /\ pc' = "running"
  /\ Len(state'.events) = Len(state.events) + 1

LastEvent(st) == st.events[Len(st.events)]

OutcomeCount(events, outcome) ==
  Cardinality({i \in 1..Len(events) : events[i].outcome = outcome})

\* C1: a step whose outcome is detected applies none of the technique's
\* effects (compromised set, host privileges, attacker position, obtained
\* credentials, persistence set, data-exfiltrated flag, stealth bonus,
\* detection reduction and data-staged flags are as before the step) and is
\* not counted as successful; a step whose outcome is success records no
\* detection (techniques_detected unchanged, no detection rule and no response
\* action on its event).
C1_DetectedAppliesNoEffects ==
  [][StepTaken =>
       LET e == LastEvent(state')
       IN /\ e.outcome = "detected" =>
               /\ state'.compromised_hosts = state.compromised_hosts
               /\ state'.network.hosts = state.network.hosts
               /\ state'.network.credentials = state.network.credentials
               /\ state'.attacker_position = state.attacker_position
               /\ state'.obtained_credentials = state.obtained_credentials
               /\ state'.persistence_hosts = state.persistence_hosts
               /\ state'.data_exfiltrated = state.data_exfiltrated
               /\ state'.stealth_bonus = state.stealth_bonus
               /\ state'.detection_reduction = state.detection_reduction
               /\ result'.techniques_successful = result.techniques_successful
               /\ e.effects = {}
          /\ e.outcome = "success" =>
               /\ result'.techniques_detected = result.techniques_detected
               /\ e.detection_rule = "None"
               /\ e.response_action = "None"]_vars

\* C1 witness: a matchup in which a foothold attempt on a host was detected
\* (the host stays uncompromised) and another step succeeded
C1_Witness ==
  \E i, j \in 1..Len(state.events) :
     /\ state.events[i].outcome = "detected"
     /\ HasEffect(RegistryGet(state.events[i].technique_id), {"gain_foothold"})
     /\ state.events[i].target_host \notin state.compromised_hosts
     /\ state.events[j].outcome = "success"

\* C2: no step of a matchup lowers the privilege level of any host of the
\* simulation state: every compromise_host call leaves the host at the
\* maximum of its level and the level requested.
C2_PrivilegeNeverDecreases ==
  [][pc = "running" =>
       \A h \in HostIds :
          PrivGE(state'.network.hosts[h].privilege_level,
                 state.network.hosts[h].privilege_level)]_vars

\* C2 witness: an elevation to admin succeeded on a host the attacker holds
\* at system level (compromise_host was asked for a lower level)
C2_Witness ==
  \E i \in 1..Len(state.events) :
     /\ state.events[i].outcome = "success"
     /\ state.events[i].technique_id = "T1548.002"
     /\ state.network.hosts[state.events[i].target_host].privilege_level = "system"

\* C3: during a matchup the compromised-host set only grows, also over steps
\* that are detected and answered by isolate-host or revoke-credential.
C3_CompromisedMonotone ==
  [][pc = "running" => state.compromised_hosts \subseteq state'.compromised_hosts]_vars

\* C3 witness: a compromised host has been isolated by a detection response
C3_Witness ==
  /\ state.compromised_hosts \cap state.isolated_hosts # {}
  /\ \E i \in 1..Len(state.events) : state.events[i].response_action = "isolate_host"

TargetSelectors ==
  {"highest_criticality", "least_defended", "most_connected", "random_reachable",
   "specific_role"}

\* C4: once a host h is in the isolated set it stays there, is_host_reachable(h)
\* is false, no step resolves h as its target, and _resolve_target returns h
\* for no gene (its technique or its fallback) under any target selector.
C4_IsolatedNeverTargeted ==
  [][pc = "running" =>
       /\ state.isolated_hosts \subseteq state'.isolated_hosts
       /\ \A h \in state.isolated_hosts :
            /\ ~IsHostReachable(state, h)
            /\ \A g \in AttackGenes, sel \in TargetSelectors :
                 LET gene == [g EXCEPT !.target_selector = sel,
                                       !.target_role = HostTable[h].role]
                 IN /\ h \notin ResolveTarget(gene, state, RegistryGet(g.technique_id))
                    /\ g.fallback_technique # "None" =>
                         h \notin ResolveTarget(gene, state, RegistryGet(g.fallback_technique))
       /\ StepTaken => LastEvent(state').target_host \notin state.isolated_hosts]_vars

\* C4 witness: a host was isolated while compromised, and a later step of the
\* same matchup was executed with a target
C4_Witness ==
  \E i, j \in 1..Len(state.events) :
     /\ i < j
     /\ state.events[i].response_action = "isolate_host"
     /\ state.events[i].target_host \in state.compromised_hosts
     /\ state.events[j].target_host \in HostIds

\* C5: matchups are isolated from each other and from the base network: after
\* any number of simulate calls every base host's is_compromised,
\* privilege_level and data_staged and every base credential's compromised
\* flag are as built, and every matchup starts (no gene executed yet) from the
\* external attacker position, untouched hosts and credentials, and empty
\* compromised, isolated, obtained-credential and revoked-credential sets.
C5_MatchupsIsolated ==
  /\ network.hosts = NewNetwork.hosts
  /\ network.credentials = NewNetwork.credentials
  /\ (pc = "running" /\ attacker = << >>) =>
        /\ state.attacker_position = NoHost
        /\ state.compromised_hosts = {}
        /\ state.isolated_hosts = {}
        /\ state.obtained_credentials = {}
        /\ state.revoked_credentials = {}
        /\ state.network.hosts = NewNetwork.hosts
        /\ state.network.credentials = NewNetwork.credentials

\* C5 witness: a finished matchup whose working copy has a compromised host
\* with staged data and a compromised credential
C5_Witness ==
  /\ pc = "done"
  /\ \E h \in HostIds :
       /\ state.network.hosts[h].is_compromised
       /\ state.network.hosts[h].privilege_level # "none"
       /\ state.network.hosts[h].data_staged
  /\ \E c \in CredIds : state.network.credentials[c].compromised

\* C6: simulate records exactly one event per gene, in gene order, each with
\* one of the three outcomes; a failure or a detection does not stop the loop
\* (the next gene can always be executed); techniques_attempted is the number
\* of genes executed, techniques_successful the number of success events and
\* techniques_detected the number of detected events, so that
\* successful + detected <= attempted, and the result returns these events.
C6_OneEventPerGene ==
  /\ Len(state.events) = Len(attacker)
  /\ \A i \in 1..Len(state.events) :
       /\ state.events[i].step = i - 1
       /\ state.events[i].outcome \in {"success", "detected", "precondition_failure"}
       /\ state.events[i].technique_id
            \in {attacker[i].technique_id, attacker[i].fallback_technique}
  /\ (pc = "running" /\ Len(attacker) < MaxGenes) => ENABLED SimulateStep
  /\ result.techniques_attempted = Len(attacker)
  /\ result.techniques_successful = OutcomeCount(state.events, "success")
  /\ result.techniques_detected = OutcomeCount(state.events, "detected")
  /\ result.techniques_successful + result.techniques_detected <= result.techniques_attempted
  /\ pc = "done" => result.events = state.events

\* C6 witness: a finished matchup whose events are a precondition failure, a
\* detection and a success, in some order
C6_Witness ==
  /\ pc = "done"
  /\ \E i, j, k \in 1..Len(result.events) :
       /\ result.events[i].outcome = "precondition_failure"
       /\ result.events[j].outcome = "detected"
       /\ j < k
       /\ result.events[k].outcome = "success"

\* the length of the longest run of consecutive success outcomes in events
RECURSIVE LongestSuccessRun(_, _, _, _)
LongestSuccessRun(events, i, run, best) ==
  IF i > Len(events)
    THEN best
    ELSE IF events[i].outcome = "success"
      THEN LongestSuccessRun(events, i + 1, run + 1, IF run + 1 > best THEN run + 1 ELSE best)
      ELSE LongestSuccessRun(events, i + 1, 0, best)

\* C7: kill_chain_length of the returned MatchResult is the length of the
\* longest run of consecutive success events of the matchup (0 without a
\* success); a precondition failure, a technique failure or a detection
\* between two successes breaks the run.
C7_KillChainIsLongestRun ==
  /\ pc = "running" => max_consecutive = LongestSuccessRun(state.events, 1, 0, 0)
  /\ pc = "done" => result.kill_chain_length = LongestSuccessRun(result.events, 1, 0, 0)

\* C7 witness: a finished matchup with two successes separated by a failed
\* or detected step
C7_Witness ==
  /\ pc = "done"
  /\ result.techniques_successful = 2
  /\ result.kill_chain_length = 1

\* C8: a step is detected only if the defender has a rule for the technique
\* executed at that step with confidence x (1 - effective stealth) -
\* detection_reduction[target] > 0, and the rule named on the event covers
\* that technique; against a defender without rules techniques_detected is 0.
C8_DetectionNeedsMatchingRule ==
  [][StepTaken =>
       LET e == LastEvent(state')
           gene == attacker'[Len(attacker')]
           effective_stealth == Min(100, gene.stealth_modifier + state.stealth_bonus)
       IN /\ e.outcome = "detected" =>
               /\ e.detection_rule = e.technique_id
               /\ \E i \in 1..Len(defender) :
                    /\ defender[i].technique_detected = e.technique_id
                    /\ defender[i].confidence * (100 - effective_stealth)
                         - state.detection_reduction[e.target_host] * 100 > 0
          /\ (\A i \in 1..Len(defender) :
                 defender[i].technique_detected # e.technique_id) =>
               result'.techniques_detected = result.techniques_detected
          /\ defender = << >> => result'.techniques_detected = 0]_vars

\* C8 witness: a step was detected by a defender that has two rules for the
\* executed technique and rules for other techniques
C8_Witness ==
  \E i \in 1..Len(state.events) :
     /\ state.events[i].outcome = "detected"
     /\ Cardinality(GetDetectionGenes(defender, state.events[i].technique_id)) = 2
     /\ \E k \in 1..Len(defender) :
          defender[k].technique_detected # state.events[i].technique_id

\* ------------------------------------------------------------------------
\* aces/attack/operators.py : the genetic operators on attacker genomes.
\* Stealth modifiers are hundredths; a value drawn by rng.uniform is in
\* thousandths until round(., 2) brings it to hundredths.  Indices and cut
\* points are the 0-based numbers of the code.
\* ------------------------------------------------------------------------

\* the techniques, tactics, selectors and roles rng.choice is sampled at
TechniqueDraws == {"T1566.001", "T1190", "T1059.001"}

TacticDraws == {"initial-access", "execution"}

SelectorDraws == {"specific_role"}

RoleDraws == {"workstation"}

\* rng.uniform(0.0, 0.5), in thousandths
StealthDraws == {496}

\* rng.uniform(-0.1, 0.1), in thousandths
DeltaDraws == {0 - 100, 4, 100}

\* the index modify_stealth draws with rng.randint(0, len(genes) - 1) is
\* sampled at its lower end
StealthIndexDraws(n) == {0}

\* round(x, 2) of a non-negative x given in thousandths: the nearest hundredth,
\* a tie going to the even one
Round2(x) ==
  LET q == x \div 10
      r == x % 10
  IN  IF r > 5 \/ (r = 5 /\ q % 2 = 1) THEN q + 1 ELSE q

\* genes[idx] of a Python list
At(genes, idx) == genes[idx + 1]

\* genes[:n]
Prefix(genes, n) == SubSeq(genes, 1, Min(n, Len(genes)))

\* genes[n:]
Suffix(genes, n) == SubSeq(genes, n + 1, Len(genes))

\* genes with genes[idx] replaced by g
SetAt(genes, idx, g) == [genes EXCEPT ![idx + 1] = g]

\* the tactic of a gene's technique
TacticOf(gene) == RegistryGet(gene.technique_id).tactic

\* the genes AttackGene(...) can build for a technique out of candidates
\* (operators.py 28-33, 56-61, 126-131)
NewGenes(candidates) ==
  { AttackGene(t, s, r, "None", Round2(u)) :
      t \in candidates \cap TechniqueDraws,
      s \in TargetSelectors \cap SelectorDraws,
      r \in {"None"} \cup (HostRoles \cap RoleDraws),
      u \in StealthDraws }

\* the tactics create_random_attacker draws the chain from
PostIaTactics ==
  { "execution", "persistence", "privilege-escalation", "defense-evasion",
    "credential-access", "discovery", "lateral-movement", "collection",
    "exfiltration" }

\* the genes one iteration of the chain loop can append
ChainGenes ==
  UNION { NewGenes(GetByTactic(tactic)) : tactic \in PostIaTactics \cap TacticDraws }

\* create_random_attacker: the genomes it can return for
\* config.max_attack_chain_length = max_length
CreateRandomAttacker(max_length) ==
  { AttackGenome(<< ia >> \o chain, max_length) :
      ia \in NewGenes(GetInitialAccess),
      chain \in UNION { [1..chain_length -> ChainGenes] :
                          chain_length \in 2..Min(8, max_length - 1) } }

\* mutate_attack, mutation_type = "add_gene", inserting at position 0 as well
AddGene_AtFront(genome) ==
  LET genes == genome.genes
  IN  IF Len(genes) < genome.max_length
      THEN { AttackGenome(Prefix(genes, pos) \o << g >> \o Suffix(genes, pos),
                          genome.max_length) :
               g \in UNION { NewGenes(GetByTactic(tactic)) :
                               tactic \in Range(TACTIC_ORDER) \cap TacticDraws },
               pos \in 0..Len(genes) }
      ELSE { genome }

\* mutate_attack, mutation_type = "add_gene"
AddGene(genome) ==
  LET genes == genome.genes
  IN  IF Len(genes) < genome.max_length
      THEN { AttackGenome(Prefix(genes, pos) \o << g >> \o Suffix(genes, pos),
                          genome.max_length) :
               g \in UNION { NewGenes(GetByTactic(tactic)) :
                               tactic \in Range(TACTIC_ORDER) \cap TacticDraws },
               pos \in 1..Len(genes) }
      ELSE { genome }

\* mutate_attack, mutation_type = "remove_gene"
RemoveGene(genome) ==
  LET genes == genome.genes
  IN  IF Len(genes) > 2
      THEN { AttackGenome(Prefix(genes, idx) \o Suffix(genes, idx + 1),
                          genome.max_length) :
               idx \in 1..(Len(genes) - 1) }
      ELSE { genome }

\* mutate_attack, mutation_type = "swap_genes"
SwapGenes(genome) ==
  LET genes == genome.genes
  IN  IF Len(genes) > 2
      THEN { AttackGenome(SetAt(SetAt(genes, i, At(genes, j)), j, At(genes, i)),
                          genome.max_length) :
               i \in 1..(Len(genes) - 1), j \in 1..(Len(genes) - 1) }
      ELSE { genome }

\* mutate_attack, mutation_type = "modify_technique"
ModifyTechnique(genome) ==
  LET genes == genome.genes
      idxs == IF Len(genes) > 1 THEN 1..(Len(genes) - 1) ELSE {0}
      techs(idx) == IF idx = 0
                    THEN GetInitialAccess \cap TechniqueDraws
                    ELSE GetByTactic(TacticOf(At(genes, idx))) \cap TechniqueDraws
  IN  UNION { { AttackGenome(SetAt(genes, idx, [At(genes, idx) EXCEPT !.technique_id = t]),
                             genome.max_length) : t \in techs(idx) } :
              idx \in idxs }

\* mutate_attack, mutation_type = "modify_targeting"
ModifyTargeting(genome) ==
  LET genes == genome.genes
      retarget(gene, selector) ==
        IF selector = "specific_role"
        THEN { [gene EXCEPT !.target_selector = selector, !.target_role = r] :
                 r \in HostRoles \cap RoleDraws }
        ELSE { [gene EXCEPT !.target_selector = selector] }
  IN  UNION { UNION { { AttackGenome(SetAt(genes, idx, g), genome.max_length) :
                          g \in retarget(At(genes, idx), selector) } :
                      selector \in TargetSelectors \cap SelectorDraws } :
              idx \in 0..(Len(genes) - 1) }

\* mutate_attack, mutation_type = "modify_stealth"
ModifyStealth(genome) ==
  LET genes == genome.genes
      new_val(gene, delta) == Max(0, Min(1000, gene.stealth_modifier * 10 + delta))
  IN  { AttackGenome(SetAt(genes, idx,
                           [At(genes, idx) EXCEPT
                              !.stealth_modifier = Round2(new_val(At(genes, idx), delta))]),
                     genome.max_length) :
          idx \in (0..(Len(genes) - 1)) \cap StealthIndexDraws(Len(genes)),
          delta \in DeltaDraws }

\* _repair_initial_access(genome, template): the genes of genome afterwards
RepairInitialAccess(genome, template) ==
  IF genome.genes = << >>
  THEN AttackGenome(<< At(template.genes, 0) >>, genome.max_length)
  ELSE IF TacticOf(At(genome.genes, 0)) # "initial-access"
       THEN AttackGenome(SetAt(genome.genes, 0, At(template.genes, 0)), genome.max_length)
       ELSE genome

\* the cut points crossover_attack can draw for a parent
CutPoints(genome) == 1..Max(1, Len(genome.genes) - 1)

\* crossover_attack without the truncation to max_length
CrossoverAttack_NoTruncate(p1, p2, pt1, pt2) ==
  LET swapped1 == Prefix(p1.genes, pt1) \o Suffix(p2.genes, pt2)
      swapped2 == Prefix(p2.genes, pt2) \o Suffix(p1.genes, pt1)
      new_genes1 == IF Len(swapped1) < 2
                    THEN (IF Len(p1.genes) >= 2 THEN Prefix(p1.genes, 2) ELSE p1.genes)
                    ELSE swapped1
      new_genes2 == IF Len(swapped2) < 2
                    THEN (IF Len(p2.genes) >= 2 THEN Prefix(p2.genes, 2) ELSE p2.genes)
                    ELSE swapped2
  IN  << RepairInitialAccess(AttackGenome(new_genes1, p1.max_length), p1),
         RepairInitialAccess(AttackGenome(new_genes2, p2.max_length), p2) >>

\* crossover_attack(ind1, ind2, rng) for the drawn cut points pt1, pt2: the
\* pair of children
CrossoverAttack(p1, p2, pt1, pt2) ==
  LET swapped1 == Prefix(p1.genes, pt1) \o Suffix(p2.genes, pt2)
      swapped2 == Prefix(p2.genes, pt2) \o Suffix(p1.genes, pt1)
      truncated1 == Prefix(swapped1, p1.max_length)
      truncated2 == Prefix(swapped2, p2.max_length)
      new_genes1 == IF Len(truncated1) < 2
                    THEN (IF Len(p1.genes) >= 2 THEN Prefix(p1.genes, 2) ELSE p1.genes)
                    ELSE truncated1
      new_genes2 == IF Len(truncated2) < 2
                    THEN (IF Len(p2.genes) >= 2 THEN Prefix(p2.genes, 2) ELSE p2.genes)
                    ELSE truncated2
  IN  << RepairInitialAccess(AttackGenome(new_genes1, p1.max_length), p1),
         RepairInitialAccess(AttackGenome(new_genes2, p2.max_length), p2) >>

\* ------------------------------------------------------------------------
\* Specification SpecMut: a genome made by create_random_attacker and then
\* handed to mutate_attack any number of times
\* ------------------------------------------------------------------------

InitMut ==
  /\ SimIdle
  /\ DefIdle
  /\ EvalIdle
  /\ RunIdle
  /\ OppIdle
  /\ StagIdle
  /\ CfgIdle
  /\ ScoreIdle
  /\ AssetIdle /\ LoopIdle /\ RollIdle /\ WebIdle
  /\ individual \in CreateRandomAttacker(MaxChainLen)
  /\ ind1 = NoGenome
  /\ ind2 = NoGenome
  /\ child1 = NoGenome
  /\ child2 = NoGenome

\* mutate_attack drew "add_gene"
MutateAddGene ==
  /\ individual # NoGenome
  /\ individual' \in AddGene(individual)
  /\ UNCHANGED << notAtkVars, ind1, ind2, child1, child2 >>

\* mutate_attack drew "remove_gene"
MutateRemoveGene ==
  /\ individual # NoGenome
  /\ individual' \in RemoveGene(individual)
  /\ UNCHANGED << notAtkVars, ind1, ind2, child1, child2 >>

\* mutate_attack drew "swap_genes"
MutateSwapGenes ==
  /\ individual # NoGenome
  /\ individual' \in SwapGenes(individual)
  /\ UNCHANGED << notAtkVars, ind1, ind2, child1, child2 >>

\* mutate_attack drew "modify_technique"
MutateModifyTechnique ==
  /\ individual # NoGenome
  /\ individual' \in ModifyTechnique(individual)
  /\ UNCHANGED << notAtkVars, ind1, ind2, child1, child2 >>

\* mutate_attack drew "modify_targeting"
MutateModifyTargeting ==
  /\ individual # NoGenome
  /\ individual' \in ModifyTargeting(individual)
  /\ UNCHANGED << notAtkVars, ind1, ind2, child1, child2 >>

\* mutate_attack drew "modify_stealth"
MutateModifyStealth ==
  /\ individual # NoGenome
  /\ individual' \in ModifyStealth(individual)
  /\ UNCHANGED << notAtkVars, ind1, ind2, child1, child2 >>

NextMut ==
  \/ MutateAddGene
  \/ MutateRemoveGene
  \/ MutateSwapGenes
  \/ MutateModifyTechnique
  \/ MutateModifyTargeting
  \/ MutateModifyStealth

SpecMut == InitMut /\ [][NextMut]_vars

\* ------------------------------------------------------------------------
\* Specification SpecCx: two genomes of the offspring list, made by
\* create_random_attacker, recombined by crossover_attack; the children take
\* the parents' places in the list (population.py 74-80)
\* ------------------------------------------------------------------------

InitCx ==
  /\ SimIdle
  /\ DefIdle
  /\ EvalIdle
  /\ RunIdle
  /\ OppIdle
  /\ StagIdle
  /\ CfgIdle
  /\ ScoreIdle
  /\ AssetIdle /\ LoopIdle /\ RollIdle /\ WebIdle
  /\ individual = NoGenome
  /\ ind1 \in CreateRandomAttacker(MaxChainLen) \cup CreateRandomAttacker(MaxChainLen - 1)
  /\ ind2 \in CreateRandomAttacker(MaxChainLen) \cup CreateRandomAttacker(MaxChainLen - 1)
  /\ child1 = NoGenome
  /\ child2 = NoGenome

\* c1, c2 = crossover_attack(offspring[i - 1], offspring[i], rng)
Crossover ==
  /\ ind1 # NoGenome
  /\ \E pt1 \in CutPoints(ind1), pt2 \in CutPoints(ind2) :
        LET children == CrossoverAttack(ind1, ind2, pt1, pt2)
        IN  /\ child1' = children[1]
            /\ child2' = children[2]
  /\ UNCHANGED << notAtkVars, individual, ind1, ind2 >>

\* offspring[i - 1] = c1; offspring[i] = c2 : the children are the pair the
\* next generation recombines
Offspring ==
  /\ child1 # NoGenome
  /\ ind1' = child1
  /\ ind2' = child2
  /\ child1' = NoGenome
  /\ child2' = NoGenome
  /\ UNCHANGED << notAtkVars, individual >>

NextCx == Crossover \/ Offspring

SpecCx == InitCx /\ [][NextCx]_vars

\* the genome invariants of AttackGenome (genome.py 37-41) plus the bounds of
\* the stealth modifier (genome.py 31)
ValidGenome(genome) ==
  /\ \A i \in 1..Len(genome.genes) : InRegistry(genome.genes[i].technique_id)
  /\ Len(genome.genes) >= 2
  /\ Len(genome.genes) <= genome.max_length
  /\ TacticOf(At(genome.genes, 0)) = "initial-access"
  /\ \A i \in 1..Len(genome.genes) :
        /\ genome.genes[i].stealth_modifier >= 0
        /\ genome.genes[i].stealth_modifier <= 100

\* C9: a genome made by create_random_attacker and changed by any sequence of
\* mutate_attack calls starts with an initial-access technique, has between 2
\* and max_attack_chain_length genes, names only techniques of the catalog and
\* has every stealth modifier in [0, 1].
C9_MutatedGenomeValid ==
  individual # NoGenome =>
    /\ ValidGenome(individual)
    /\ individual.max_length = MaxChainLen

\* C9 witness: genes were added and removed and the stealth of the first gene
\* was raised to its upper end: a genome of two genes whose second gene is an
\* initial-access technique too and whose first gene has stealth 1.0
C9_Witness ==
  /\ individual # NoGenome
  /\ Len(individual.genes) = 2
  /\ TacticOf(At(individual.genes, 1)) = "initial-access"
  /\ At(individual.genes, 1).target_role = "workstation"
  /\ At(individual.genes, 0).stealth_modifier = 100

\* C10: both children of crossover_attack start with an initial-access
\* technique, have at least 2 genes and at most their own max_length genes.
C10_ChildrenValid ==
  child1 # NoGenome =>
    /\ Len(child1.genes) >= 2
    /\ Len(child2.genes) >= 2
    /\ Len(child1.genes) <= child1.max_length
    /\ Len(child2.genes) <= child2.max_length
    /\ TacticOf(At(child1.genes, 0)) = "initial-access"
    /\ TacticOf(At(child2.genes, 0)) = "initial-access"

\* C10 witness: parents with different max_length were recombined and the
\* first child was cut down to its max_length
C10_Witness ==
  /\ child1 # NoGenome
  /\ child1.max_length < child2.max_length
  /\ Len(child1.genes) = child1.max_length
  /\ Len(child1.genes) + Len(child2.genes) < Len(ind1.genes) + Len(ind2.genes)
  /\ At(child1.genes, 0).technique_id # At(child2.genes, 0).technique_id

\* ------------------------------------------------------------------------
\* aces/defense/operators.py : the genetic operators on defender genomes.
\* A rule is a DetectionGene; data_source and deploy_cost, which no operator
\* reads, are left out.  Confidences are hundredths and false-positive rates
\* thousandths; a value drawn by rng.uniform has one more digit until round
\* brings it to its unit.
\* ------------------------------------------------------------------------

\* config.defender_budget in the defender-operator specification
MaxBudget == 5

\* number of crossover_defense / mutate_defense calls followed
MaxDefCalls == 4

\* DetectionLogic
DetectionLogics == {"signature", "behavioral", "correlation", "ml_anomaly"}

\* ResponseAction
ResponseActions ==
  {"alert_only", "isolate_host", "kill_process", "revoke_credential", "block_traffic"}

\* _FP_RANGES, in thousandths
FP_RANGES ==
  [ signature   |-> << 10, 100 >>,
    behavioral  |-> << 50, 250 >>,
    correlation |-> << 20, 150 >>,
    ml_anomaly  |-> << 50, 200 >> ]

\* rng.sample(all_ids, n) is sampled at one outcome: the first n of these ids
DefSampleOrder == << "T1566.001", "T1190", "T1059.001", "T1078", "T1005", "T1041" >>

SampleDraws(n) == { SubSeq(DefSampleOrder, 1, Min(n, Len(DefSampleOrder))) }

\* what the draws inside create_random_defender are sampled at
\* (confidence: rng.uniform(0.3, 0.9) in thousandths)
CreateDraws ==
  [ logic |-> {"signature"}, confidence |-> {304}, response |-> {"alert_only"} ]

\* what the draws of mutate_defense are sampled at
MutateDraws ==
  [ technique  |-> {"T1566.001", "T1041"},
    logic      |-> {"signature", "behavioral"},
    confidence |-> {896},
    response   |-> {"alert_only", "isolate_host"},
    delta      |-> {0 - 100, 100} ]

\* rng.randint(0, len(genes) - 1), sampled at both ends
IndexDraws(n) == {0, n - 1} \cap (0..(n - 1))

\* rng.uniform(fp_lo, fp_hi) in ten-thousandths, sampled just above fp_lo
FpDraws(logic) == { FP_RANGES[logic][1] * 10 + 4 }

\* round(x, 3) of a non-negative x given in ten-thousandths
Round3(x) ==
  LET q == x \div 10
      r == x % 10
  IN  IF r > 5 \/ (r = 5 /\ q % 2 = 1) THEN q + 1 ELSE q

\* (g.technique_detected, g.detection_logic.value)
RuleKey(gene) == << gene.technique_detected, gene.detection_logic >>

\* the keys of the rules of genes other than genes[idx] (idx = -1: of all)
ExistingKeys(genes, idx) ==
  { RuleKey(genes[i]) : i \in (1..Len(genes)) \ {idx + 1} }

\* the rules DetectionGene(...) can build (operators.py 50-58, 129-137)
NewRules(techs, draws) ==
  UNION { { DetectionGene(t, l, Round2(c), Round3(fp), r) :
              t \in techs \cap TechIds,
              c \in draws.confidence,
              fp \in FpDraws(l),
              r \in ResponseActions \cap draws.response } :
          l \in DetectionLogics \cap draws.logic }

\* the loop of create_random_defender from selected_ids[i] on: the rule
\* lists it can end with
RECURSIVE CreateRules(_, _, _)
CreateRules(selected_ids, i, genes) ==
  IF i > Len(selected_ids)
  THEN { genes }
  ELSE UNION { IF RuleKey(g) \in ExistingKeys(genes, 0 - 1)
               THEN CreateRules(selected_ids, i + 1, genes)
               ELSE CreateRules(selected_ids, i + 1, Append(genes, g)) :
               g \in NewRules({selected_ids[i]}, CreateDraws) }

\* create_random_defender: the genomes it can return for
\* config.defender_budget = budget
CreateRandomDefender(budget) ==
  UNION { UNION { { DefenseGenome(genes, budget) :
                      genes \in CreateRules(selected_ids, 1, << >>) } :
                  selected_ids \in SampleDraws(num_rules) } :
          num_rules \in 5..budget }

\* mutate_defense, mutation_type = "add_rule"
AddRule(genome) ==
  LET genes == genome.genes
  IN  IF Len(genes) < genome.budget
      THEN { IF RuleKey(g) \notin ExistingKeys(genes, 0 - 1)
             THEN DefenseGenome(Append(genes, g), genome.budget)
             ELSE genome :
             g \in NewRules(MutateDraws.technique, MutateDraws) }
      ELSE { genome }

\* mutate_defense, mutation_type = "remove_rule"
RemoveRule(genome) ==
  LET genes == genome.genes
  IN  IF Len(genes) > 3
      THEN { DefenseGenome(Prefix(genes, idx) \o Suffix(genes, idx + 1), genome.budget) :
               idx \in IndexDraws(Len(genes)) }
      ELSE { genome }

\* mutate_defense, mutation_type = "change_logic"
ChangeLogic(genome) ==
  LET genes == genome.genes
      changed(idx, new_logic, fp) ==
        IF << At(genes, idx).technique_detected, new_logic >> \notin ExistingKeys(genes, idx)
        THEN DefenseGenome(SetAt(genes, idx,
                                 [At(genes, idx) EXCEPT
                                    !.detection_logic = new_logic,
                                    !.false_positive_rate = Round3(fp)]),
                           genome.budget)
        ELSE genome
  IN  IF genes # << >>
      THEN UNION { { changed(idx, new_logic, fp) :
                       idx \in IndexDraws(Len(genes)), fp \in FpDraws(new_logic) } :
                   new_logic \in DetectionLogics \cap MutateDraws.logic }
      ELSE { genome }

\* mutate_defense, mutation_type = "tune_confidence"
TuneConfidence(genome) ==
  LET genes == genome.genes
      new_val(gene, delta) == Max(100, Min(1000, gene.confidence * 10 + delta))
  IN  IF genes # << >>
      THEN { DefenseGenome(SetAt(genes, idx,
                                 [At(genes, idx) EXCEPT
                                    !.confidence = Round2(new_val(At(genes, idx), delta))]),
                           genome.budget) :
               idx \in IndexDraws(Len(genes)), delta \in MutateDraws.delta }
      ELSE { genome }

\* mutate_defense, mutation_type = "change_response"
ChangeResponse(genome) ==
  LET genes == genome.genes
  IN  IF genes # << >>
      THEN { DefenseGenome(SetAt(genes, idx,
                                 [At(genes, idx) EXCEPT !.response_action = r]),
                           genome.budget) :
               idx \in IndexDraws(Len(genes)),
               r \in ResponseActions \cap MutateDraws.response }
      ELSE { genome }

\* mutate_defense, mutation_type = "retarget"
Retarget(genome) ==
  LET genes == genome.genes
      moved(idx, new_tech_id) ==
        IF << new_tech_id, At(genes, idx).detection_logic >> \notin ExistingKeys(genes, idx)
        THEN DefenseGenome(SetAt(genes, idx,
                                 [At(genes, idx) EXCEPT !.technique_detected = new_tech_id]),
                           genome.budget)
        ELSE genome
  IN  IF genes # << >>
      THEN { moved(idx, new_tech_id) :
               idx \in IndexDraws(Len(genes)),
               new_tech_id \in TechIds \cap MutateDraws.technique }
      ELSE { genome }

\* the first loop of _deduplicate_and_trim: the first rule of every key
RECURSIVE Unique(_, _, _)
Unique(genes, i, unique) ==
  IF i > Len(genes)
  THEN unique
  ELSE IF RuleKey(genes[i]) \in ExistingKeys(unique, 0 - 1)
       THEN Unique(genes, i + 1, unique)
       ELSE Unique(genes, i + 1, Append(unique, genes[i]))

\* where a stable descending sort by confidence puts gene in a sorted list:
\* after every rule whose confidence is not lower
InsertByConfidence(sorted, gene) ==
  LET before == Cardinality({ k \in 1..Len(sorted) : sorted[k].confidence >= gene.confidence })
  IN  Prefix(sorted, before) \o << gene >> \o Suffix(sorted, before)

\* unique.sort(key=lambda g: g.confidence, reverse=True)
RECURSIVE SortByConfidence(_, _, _)
SortByConfidence(genes, i, sorted) ==
  IF i > Len(genes)
  THEN sorted
  ELSE SortByConfidence(genes, i + 1, InsertByConfidence(sorted, genes[i]))

\* _deduplicate_and_trim without the trimming to the budget
DeduplicateAndTrim_NoTrim(genes, budget) ==
  Unique(genes, 1, << >>)

\* _deduplicate_and_trim
DeduplicateAndTrim(genes, budget) ==
  LET unique == Unique(genes, 1, << >>)
  IN  IF Len(unique) > budget
      THEN Prefix(SortByConfidence(unique, 1, << >>), budget)
      ELSE unique

\* the outcomes of the rng.random() < 0.5 tests of crossover_defense for a
\* pool of n rules (TRUE: the rule goes to child 1), sampled at four patterns
CoinDraws(n, n1) ==
  { [i \in 1..n |-> TRUE],
    [i \in 1..n |-> i % 2 = 1],
    [i \in 1..n |-> i > n1],
    [i \in 1..n |-> i < n] }

\* the rules of all_genes a child is dealt
RECURSIVE Dealt(_, _, _, _)
Dealt(all_genes, coins, side, i) ==
  IF i > Len(all_genes)
  THEN << >>
  ELSE IF coins[i] = side
       THEN << all_genes[i] >> \o Dealt(all_genes, coins, side, i + 1)
       ELSE Dealt(all_genes, coins, side, i + 1)

\* crossover_defense without the "at least 3 genes" repair
CrossoverDefense_NoRepair(p1, p2, coins) ==
  LET all_genes == p1.genes \o p2.genes
  IN  << DefenseGenome(DeduplicateAndTrim(Dealt(all_genes, coins, TRUE, 1), p1.budget),
                       p1.budget),
         DefenseGenome(DeduplicateAndTrim(Dealt(all_genes, coins, FALSE, 1), p2.budget),
                       p2.budget) >>

\* crossover_defense(ind1, ind2, rng) for the drawn coins: the pair of children
CrossoverDefense(p1, p2, coins) ==
  LET all_genes == p1.genes \o p2.genes
      trimmed1 == DeduplicateAndTrim(Dealt(all_genes, coins, TRUE, 1), p1.budget)
      trimmed2 == DeduplicateAndTrim(Dealt(all_genes, coins, FALSE, 1), p2.budget)
      child1_genes == IF Len(trimmed1) < 3
                      THEN (IF Len(p1.genes) >= 3 THEN Prefix(p1.genes, 3) ELSE p1.genes)
                      ELSE trimmed1
      child2_genes == IF Len(trimmed2) < 3
                      THEN (IF Len(p2.genes) >= 3 THEN Prefix(p2.genes, 3) ELSE p2.genes)
                      ELSE trimmed2
  IN  << DefenseGenome(child1_genes, p1.budget), DefenseGenome(child2_genes, p2.budget) >>

\* ------------------------------------------------------------------------
\* Specification SpecDef: two genomes made by create_random_defender, the
\* first handed to mutate_defense and both to crossover_defense, whose
\* children take their places (population.py 107-121)
\* ------------------------------------------------------------------------

InitDef ==
  /\ SimIdle
  /\ AtkIdle
  /\ EvalIdle
  /\ RunIdle
  /\ OppIdle
  /\ StagIdle
  /\ CfgIdle
  /\ ScoreIdle
  /\ AssetIdle /\ LoopIdle /\ RollIdle /\ WebIdle
  /\ def1 \in CreateRandomDefender(MaxBudget)
  /\ def2 \in CreateRandomDefender(MaxBudget)
  /\ def_calls = 0

\* mutate_defense drew "add_rule"
MutateAddRule ==
  /\ def_calls < MaxDefCalls
  /\ def1' \in AddRule(def1)
  /\ def_calls' = def_calls + 1
  /\ UNCHANGED << notDefVars, def2 >>

\* mutate_defense drew "remove_rule"
MutateRemoveRule ==
  /\ def_calls < MaxDefCalls
  /\ def1' \in RemoveRule(def1)
  /\ def_calls' = def_calls + 1
  /\ UNCHANGED << notDefVars, def2 >>

\* mutate_defense drew "change_logic"
MutateChangeLogic ==
  /\ def_calls < MaxDefCalls
  /\ def1' \in ChangeLogic(def1)
  /\ def_calls' = def_calls + 1
  /\ UNCHANGED << notDefVars, def2 >>

\* mutate_defense drew "tune_confidence"
MutateTuneConfidence ==
  /\ def_calls < MaxDefCalls
  /\ def1' \in TuneConfidence(def1)
  /\ def_calls' = def_calls + 1
  /\ UNCHANGED << notDefVars, def2 >>

\* mutate_defense drew "change_response"
MutateChangeResponse ==
  /\ def_calls < MaxDefCalls
  /\ def1' \in ChangeResponse(def1)
  /\ def_calls' = def_calls + 1
  /\ UNCHANGED << notDefVars, def2 >>

\* mutate_defense drew "retarget"
MutateRetarget ==
  /\ def_calls < MaxDefCalls
  /\ def1' \in Retarget(def1)
  /\ def_calls' = def_calls + 1
  /\ UNCHANGED << notDefVars, def2 >>

\* c1, c2 = crossover_defense(offspring[i - 1], offspring[i], rng);
\* offspring[i - 1] = c1; offspring[i] = c2
CrossoverDefenders ==
  /\ def_calls < MaxDefCalls
  /\ \E coins \in CoinDraws(Len(def1.genes) + Len(def2.genes), Len(def1.genes)) :
        LET children == CrossoverDefense(def1, def2, coins)
        IN  /\ def1' = children[1]
            /\ def2' = children[2]
  /\ def_calls' = def_calls + 1
  /\ UNCHANGED notDefVars

NextDef ==
  \/ MutateAddRule
  \/ MutateRemoveRule
  \/ MutateChangeLogic
  \/ MutateTuneConfidence
  \/ MutateChangeResponse
  \/ MutateRetarget
  \/ CrossoverDefenders

SpecDef == InitDef /\ [][NextDef]_vars

\* the invariants of DefenseGenome (defense/genome.py 27-29) and the bounds
\* the operators keep the confidence in
ValidDefender(genome) ==
  /\ Len(genome.genes) <= genome.budget
  /\ \A i, j \in 1..Len(genome.genes) :
        i # j => RuleKey(genome.genes[i]) # RuleKey(genome.genes[j])
  /\ \A i \in 1..Len(genome.genes) :
        /\ genome.genes[i].confidence >= 10
        /\ genome.genes[i].confidence <= 100

\* C11: a defender genome made by create_random_defender and changed by any
\* sequence of crossover_defense and mutate_defense calls has at most budget
\* rules, no two rules with the same (technique, detection logic) and every
\* confidence in [0.1, 1].
C11_DefenderValid ==
  /\ ValidDefender(def1)
  /\ ValidDefender(def2)
  /\ def1.budget \in {0, MaxBudget}

\* C11 witness: after three calls the first genome is at its budget, has two
\* rules for one technique (with different logics) and a rule whose
\* confidence was tuned away from the value it was created with
C11_Witness ==
  /\ def_calls = 3
  /\ Len(def1.genes) = def1.budget
  /\ \E i, j \in 1..Len(def1.genes) :
        /\ i # j
        /\ def1.genes[i].technique_detected = def1.genes[j].technique_detected
  /\ \E i \in 1..Len(def1.genes) : def1.genes[i].confidence \notin {30, 90}

\* C12: starting from genomes of at least 3 rules, every child of
\* crossover_defense and every result of mutate_defense has at least 3 rules.
C12_AtLeastThreeRules ==
  def1.budget # 0 =>
    /\ Len(def1.genes) >= 3
    /\ Len(def2.genes) >= 3

\* C12 witness: a crossover dealt the second child fewer than 3 rules, which
\* fell back to three rules of its parent, and remove_rule brought the first
\* genome down to 3 rules
C12_Witness ==
  /\ def_calls = 3
  /\ Len(def1.genes) = 3
  /\ Len(def2.genes) = 3


\* ------------------------------------------------------------------------
\* aces/evolution/coevolution.py : the evaluation of the attackers
\* ------------------------------------------------------------------------

\* the values self.rng.random() returns one after the other from
\* Random(config.seed) on, in hundredths (seed 42)
RandomStream ==
  << 63, 2, 27, 22, 73, 67, 89, 8, 42, 2, 21, 50, 2, 19, 64, 54, 22, 58, 80, 0 >>

\* the value of the next self.rng.random() once n values have been returned
RandomAt(n) == RandomStream[n + 1]

\* config.matchups_per_eval of the engines made here
EvalMatchups == 1

\* the attacker genomes the populations are made of; their selector sorts
\* the candidates by criticality, which no two candidates share here, so
\* _resolve_target makes no rng.choice and has one outcome
EvalGenomes ==
  { << AttackGene("T1190", "highest_criticality", "None", "None", 0),
       AttackGene("T1059.004", "highest_criticality", "None", "None", 0) >>,
    << AttackGene("T1190", "highest_criticality", "None", "None", 0),
       AttackGene("T1005", "highest_criticality", "None", "None", 0),
       AttackGene("T1059.004", "highest_criticality", "None", "None", 0) >>,
    << AttackGene("T1566.001", "highest_criticality", "None", "None", 0),
       AttackGene("T1005", "highest_criticality", "None", "None", 0) >> }

\* init_attacker_population : the populations of two genomes
AttackerPopulations == { << a, b >> : a \in EvalGenomes, b \in EvalGenomes }

\* init_defender_population : the populations of one genome
DefenderPopulations ==
  { << << DetectionGene("T1190", "signature", 95, 5, "alert_only"),
          DetectionGene("T1005", "behavioral", 50, 10, "alert_only"),
          DetectionGene("T1041", "signature", 30, 5, "alert_only") >> >>,
    << << DetectionGene("T1059.004", "behavioral", 20, 10, "kill_process"),
          DetectionGene("T1566.001", "signature", 95, 5, "alert_only"),
          DetectionGene("T1041", "signature", 30, 5, "alert_only") >> >> }

\* the number of values rng.sample(population, k) takes from the generator:
\* one selection for each of the k members
SampleCalls(k) == k

\* the number of rng.random() calls of one iteration of simulate's loop that
\* started in st for the gene and ended with the event: none before a
\* precondition failure, the success roll (engine.py 96), and the detection
\* roll (engine.py 320) when a rule gives a positive probability
RandomCalls(gene, st, genes, event) ==
  IF event.outcome = "precondition_failure"
    THEN (IF event.effects = {"reason"} THEN 1 ELSE 0)
    ELSE LET effective_stealth == Min(100, gene.stealth_modifier + st.stealth_bonus)
             best == GetDetectionProbability(genes, event.technique_id, effective_stealth)
             prob == Max(0, best.prob - st.detection_reduction[event.target_host] * 100)
         IN IF prob <= 0 \/ best.rule = 0 THEN 1 ELSE 2

\* CoevolutionEngine.__init__ and the populations of run: the first engine
InitEval ==
  /\ SimIdle
  /\ AtkIdle
  /\ DefIdle
  /\ RunIdle
  /\ OppIdle
  /\ StagIdle
  /\ CfgIdle
  /\ ScoreIdle
  /\ AssetIdle /\ LoopIdle /\ RollIdle /\ WebIdle
  /\ engine = 1
  /\ attackers \in AttackerPopulations
  /\ defenders \in DefenderPopulations
  /\ ind_index = 0
  /\ rng = 0
  /\ matchups = << << >>, << >> >>

\* coevolution.py 97-109 : the opponents of the next attacker are sampled (the
\* hall of fame is empty in generation 0) and simulate is called
EvalSimulate ==
  /\ engine \in {1, 2}
  /\ ind_index < Len(attackers)
  /\ SimulateStartWith({defenders[1]})
  /\ rng' = rng + SampleCalls(Min(EvalMatchups, Len(defenders)))
  /\ matchups' = [matchups EXCEPT ![engine] =
                    Append(@, [individual |-> ind_index, opponent |-> 0,
                               attacker |-> attackers[ind_index + 1],
                               defender |-> defenders[1],
                               first |-> rng', draws |-> << >>,
                               result |-> NewMatchResult])]
  /\ UNCHANGED << engine, attackers, defenders, ind_index, notEvalVars >>

\* one iteration of simulate's loop for the next gene of the attacker, with the
\* next values of the engine's generator
EvalStep ==
  /\ engine \in {1, 2}
  /\ ind_index < Len(attackers)
  /\ Len(attacker) < Len(attackers[ind_index + 1])
  /\ SimulateStepWith({attackers[ind_index + 1][Len(attacker) + 1]},
                      {RandomAt(rng)}, {RandomAt(rng + 1)})
  /\ rng' = rng + RandomCalls(attackers[ind_index + 1][Len(attacker) + 1],
                              state, defender, LastEvent(state'))
  /\ UNCHANGED << engine, attackers, defenders, ind_index, matchups, notEvalVars >>

\* simulate returns; coevolution.py 110-115 : the loop goes to the next attacker
EvalReturn ==
  /\ engine \in {1, 2}
  /\ ind_index < Len(attackers)
  /\ Len(attacker) = Len(attackers[ind_index + 1])
  /\ SimulateReturn
  /\ LET m == matchups[engine][Len(matchups[engine])]
     IN matchups' = [matchups EXCEPT ![engine][Len(matchups[engine])] =
                       [m EXCEPT !.draws = SubSeq(RandomStream, m.first + 1, rng),
                                 !.result = result']]
  /\ ind_index' = ind_index + 1
  /\ UNCHANGED << engine, attackers, defenders, rng, notEvalVars >>

\* a second CoevolutionEngine is made with the same seed and run on the same
\* network; its attacker population need not be the one of the first
NewEngine ==
  /\ engine = 1
  /\ ind_index = Len(attackers)
  /\ pc = "done"
  /\ engine' = 2
  /\ rng' = 0
  /\ attackers' \in AttackerPopulations
  /\ ind_index' = 0
  /\ pc' = "idle"
  /\ network' = NewNetwork
  /\ attacker' = << >>
  /\ defender' = << >>
  /\ state' = NewSimulationState(NewNetwork)
  /\ result' = NewMatchResult
  /\ consecutive_successes' = 0
  /\ max_consecutive' = 0
  /\ UNCHANGED << defenders, matchups, notEvalVars >>

NextEval == EvalSimulate \/ EvalStep \/ EvalReturn \/ NewEngine

SpecEval == InitEval /\ [][NextEval]_vars

RECURSIVE Orders(_)
Orders(S) ==
  IF S = {} THEN { << >> }
  ELSE UNION { { << h >> \o p : p \in Orders(S \ {h}) } : h \in S }

\* the orders in which a set of host ids can be enumerated: the order of a
\* Python set of str follows the hashes of its members, which differ from one
\* interpreter process to the next
Enumerations == Orders(HostIds)

\* list(S), or `for h in S`, under an enumeration order: the members of S in
\* the order of the enumeration, from position i on
RECURSIVE ListFrom(_, _, _)
ListFrom(S, order, i) ==
  IF i > Len(order) THEN << >>
  ELSE (IF order[i] \in S THEN << order[i] >> ELSE << >>) \o ListFrom(S, order, i + 1)

\* the values rng.choice can be called with as the state of the generator:
\* the index it picks in a list of n elements is a function of that state
ChoiceDraws == {0, 1}

\* rng.choice(candidates) when the generator is in state k
Choice(candidates, k) == candidates[(k % Len(candidates)) + 1]

\* candidates.sort(key=criticality, reverse=True); candidates[0] : the sort is
\* stable, so the first of the candidates with the largest key comes first
FirstByCriticality(candidates) ==
  candidates[CHOOSE i \in 1..Len(candidates) :
               /\ \A j \in 1..Len(candidates) :
                    HostCriticality(candidates[i]) >= HostCriticality(candidates[j])
               /\ \A j \in 1..(i - 1) :
                    HostCriticality(candidates[j]) < HostCriticality(candidates[i])]

\* candidates.sort(key=len(get_reachable), reverse=True); candidates[0]
FirstByOutDegree(candidates) ==
  candidates[CHOOSE i \in 1..Len(candidates) :
               /\ \A j \in 1..Len(candidates) :
                    HostOutDegree(candidates[i]) >= HostOutDegree(candidates[j])
               /\ \A j \in 1..(i - 1) :
                    HostOutDegree(candidates[j]) < HostOutDegree(candidates[i])]

\* SimulationEngine._resolve_target with SimulationState.get_reachable_hosts,
\* for one enumeration order of the sets and one state k of the generator;
\* NoHost stands for None
ResolveTargetOrdered(gene, st, tech, order, k) ==
  LET needs_external == HasPrecondition(tech, "position_external")
      reachable == ListFrom(GetReachableHosts(st), order, 1)
      is_foothold == HasEffect(tech, {"gain_foothold", "move_laterally"})
      has_on_host == HasPrecondition(tech, "position_on_host")
      candidates ==
        IF is_foothold
          THEN ListFrom((GetReachableHosts(st) \ st.compromised_hosts) \ {"external"}, order, 1)
          ELSE IF has_on_host /\ st.compromised_hosts # {}
            THEN ListFrom(st.compromised_hosts \ st.isolated_hosts, order, 1)
            ELSE ListFrom(GetReachableHosts(st) \ {"external"}, order, 1)
      role_matches == SelectSeq(candidates, LAMBDA h : HostTable[h].role = gene.target_role)
  IN IF needs_external /\ st.attacker_position # NoHost THEN NoHost
     ELSE IF reachable = << >> THEN NoHost
     ELSE IF candidates = << >> THEN NoHost
     ELSE IF gene.target_selector = "highest_criticality"
       THEN FirstByCriticality(candidates)
     ELSE IF gene.target_selector = "most_connected"
       THEN FirstByOutDegree(candidates)
     ELSE IF gene.target_selector = "specific_role" /\ gene.target_role # "None"
       THEN (IF role_matches # << >> THEN role_matches[1] ELSE Choice(candidates, k))
     ELSE Choice(candidates, k)

\* C14: two runs of the driver with the same configuration, seed and network
\* produce identical populations, hall of fame and metrics history; in
\* particular the outcome of simulate is a function of (attacker genome,
\* defender genome, base network, random-source state) and of nothing else,
\* such as the enumeration order of the reachable-host or compromised-host
\* sets.  In every state of a matchup, the target simulate resolves for the
\* next gene with a given state of the generator is the same for every
\* enumeration order of the sets.
C14_TargetIgnoresEnumerationOrder ==
  pc = "running" =>
    \A gene \in AttackGenes : \A k \in ChoiceDraws :
      \A o1 \in Enumerations : \A o2 \in Enumerations :
         ResolveTargetOrdered(gene, state, RegistryGet(gene.technique_id), o1, k)
           = ResolveTargetOrdered(gene, state, RegistryGet(gene.technique_id), o2, k)


\* ------------------------------------------------------------------------
\* aces/evolution : the loop of CoevolutionEngine.run
\* ------------------------------------------------------------------------

\* the largest config.num_generations of the runs that are explored
MaxGenerations == 3

\* config.population_size of the runs
PopulationSize == 3

\* config.hall_of_fame_size of the runs
HallOfFameSize == 2

\* config.stagnation_window of the runs
StagnationWindow == 2

\* config.immigrant_fraction of the runs, in hundredths
ImmigrantFraction == 70

\* fitness.valid is false: a fitness object that holds no values
NoFitness == 0 - 1

\* an individual of a population: its genes and the primary objective
\* fitness.values[0] in tenths (NoFitness while fitness.valid is false)
Individual(genes, fitness) == [genes |-> genes, fitness |-> fitness]

\* ind.fitness.valid
Valid(ind) == ind.fitness # NoFitness

\* the attacker genomes the operators produce in the runs
RunAttackers ==
  { << AttackGene("T1190", "highest_criticality", "None", "None", 0),
       AttackGene("T1059.004", "highest_criticality", "None", "None", 0) >>,
    << AttackGene("T1566.001", "specific_role", "workstation", "None", 50),
       AttackGene("T1005", "random_reachable", "None", "None", 0) >>,
    << AttackGene("T1566.001", "specific_role", "workstation", "None", 50),
       AttackGene("T1059.004", "random_reachable", "None", "None", 0) >> }

\* the defender genomes the operators produce in the runs
RunDefenders ==
  { << DetectionGene("T1190", "signature", 95, 5, "alert_only"),
       DetectionGene("T1190", "behavioral", 50, 10, "isolate_host"),
       DetectionGene("T1041", "signature", 30, 5, "alert_only") >>,
    << DetectionGene("T1190", "signature", 80, 5, "alert_only"),
       DetectionGene("T1041", "behavioral", 50, 10, "kill_process"),
       DetectionGene("T1041", "signature", 30, 5, "alert_only") >>,
    << DetectionGene("T1566.001", "signature", 80, 5, "alert_only"),
       DetectionGene("T1190", "behavioral", 50, 10, "kill_process"),
       DetectionGene("T1041", "signature", 30, 5, "alert_only") >> }

\* create_random_attacker / create_random_defender, and the offspring of
\* vary_attackers / vary_defenders
Genomes(pop_type) == IF pop_type = "attacker" THEN RunAttackers ELSE RunDefenders

\* the primary objective compute_attacker_fitness / compute_defender_fitness
\* gives an individual, in tenths
FitnessDraws == {0, 10}

\* the key _update_hof compares hall-of-fame members by.  Attackers:
\* tuple(g.technique_id for g in genes).  Defenders:
\* tuple(sorted(g.technique_detected for g in genes)); two sorted tuples are
\* equal exactly when every technique has as many rules in both, so the key is
\* kept as the number of rules of each technique.
Key(pop_type, genes) ==
  IF pop_type = "attacker"
    THEN [i \in 1..Len(genes) |-> genes[i].technique_id]
    ELSE [t \in {genes[i].technique_detected : i \in 1..Len(genes)} |->
            Cardinality({i \in 1..Len(genes) : genes[i].technique_detected = t})]

\* the sort without reverse=True: the lowest fitness first
SortByFitness_Ascending(population) ==
  LET before(i) == { k \in 1..Len(population) :
                       \/ population[k].fitness < population[i].fitness
                       \/ population[k].fitness = population[i].fitness /\ k < i }
  IN  [r \in 1..Len(population) |->
         population[CHOOSE i \in 1..Len(population) : Cardinality(before(i)) = r - 1]]

\* list.sort(key=lambda x: x.fitness.values[0], reverse=True) : the sort is
\* stable, so an individual comes after those of higher fitness and after
\* those of equal fitness that were before it
SortByFitness(population) ==
  LET before(i) == { k \in 1..Len(population) :
                       \/ population[k].fitness > population[i].fitness
                       \/ population[k].fitness = population[i].fitness /\ k < i }
  IN  [r \in 1..Len(population) |->
         population[CHOOSE i \in 1..Len(population) : Cardinality(before(i)) = r - 1]]

\* the loop of _update_hof over the top candidates: a clone of the candidate
\* is appended unless a member of the hall of fame has its key already
RECURSIVE HofAppend(_, _, _, _)
HofAppend(hof, top, i, pop_type) ==
  IF i > Len(top)
  THEN hof
  ELSE LET existing == { Key(pop_type, hof[k].genes) : k \in 1..Len(hof) }
       IN  IF Key(pop_type, top[i].genes) \notin existing
           THEN HofAppend(Append(hof, Individual(top[i].genes, top[i].fitness)),
                          top, i + 1, pop_type)
           ELSE HofAppend(hof, top, i + 1, pop_type)

\* _update_hof that does not cut the hall of fame to hall_of_fame_size
UpdateHof_NoTrim(hof, population, pop_type) ==
  LET valid == SelectSeq(population, Valid)
      top == Prefix(SortByFitness(valid), HallOfFameSize)
  IN  SortByFitness(HofAppend(hof, top, 1, pop_type))

\* CoevolutionEngine._update_hof, for one of the two populations
UpdateHof(hof, population, pop_type) ==
  LET valid == SelectSeq(population, Valid)
      top == Prefix(SortByFitness(valid), HallOfFameSize)
  IN  Prefix(SortByFitness(HofAppend(hof, top, 1, pop_type)), HallOfFameSize)

\* atk_primary of record_generation: the primary fitness values of the
\* attackers with a valid fitness
AttackerPrimary(attackers_) ==
  { attackers_[i].fitness : i \in { k \in 1..Len(attackers_) : Valid(attackers_[k]) } }

\* record_generation that numbers the generations from 1
RecordGeneration_FromOne(generation, atk_primary) ==
  [generation |-> generation + 1,
   attacker_fitness_max |->
     IF atk_primary # {}
       THEN CHOOSE m \in atk_primary : \A v \in atk_primary : m >= v
       ELSE 0]

\* MetricsCollector.record_generation : the record appended to history (its
\* generation index and the largest primary fitness of the attackers)
RecordGeneration(generation, atk_primary) ==
  [generation |-> generation,
   attacker_fitness_max |->
     IF atk_primary # {}
       THEN CHOOSE m \in atk_primary : \A v \in atk_primary : m >= v
       ELSE 0]

\* MetricsCollector.detect_stagnation; the fitness values are in tenths
DetectStagnation(hist, window) ==
  IF Len(hist) < window
  THEN FALSE
  ELSE LET max_vals == { hist[i].attacker_fitness_max : i \in (Len(hist) - window + 1)..Len(hist) }
       IN  IF max_vals = {}
           THEN FALSE
           ELSE LET hi == CHOOSE m \in max_vals : \A v \in max_vals : m >= v
                    lo == CHOOSE m \in max_vals : \A v \in max_vals : m <= v
                IN  hi - lo < 5

\* tools.selNSGA2(population, k) returns k individuals, or all of them when
\* the population has no more than k
SelectedCount(population, k) == Min(k, Len(population))

\* the lists of n individuals that come with a fresh fitness object: the
\* offspring of vary_attackers / vary_defenders, the immigrants
FreshIndividuals(n, pop_type) ==
  [1..n -> { Individual(g, NoFitness) : g \in Genomes(pop_type) }]

\* CoevolutionEngine._inject_elites
InjectElites(population, hof) ==
  LET n_elites == Min(2, Len(hof))
  IN  [i \in 1..Len(population) |->
         IF i <= n_elites THEN Individual(hof[i].genes, hof[i].fitness) ELSE population[i]]

\* n_immigrants of inject_immigrants; the fraction is in hundredths
ImmigrantCount(population, fraction) == Max(1, (Len(population) * fraction) \div 100)

\* valid_pop.sort(key=fitness); valid_pop[:n_immigrants] : the positions in
\* the population of the individuals that are removed (the sort is stable)
RemoveSet(population, n_immigrants) ==
  { p \in 1..Len(population) :
      /\ Valid(population[p])
      /\ Cardinality({ q \in 1..Len(population) :
                         /\ Valid(population[q])
                         /\ \/ population[q].fitness < population[p].fitness
                            \/ population[q].fitness = population[p].fitness /\ q < p })
           < n_immigrants }

\* [ind for ind in population if id(ind) not in remove_set], from position i on
RECURSIVE Remaining(_, _, _)
Remaining(population, remove_set, i) ==
  IF i > Len(population)
  THEN << >>
  ELSE (IF i \in remove_set THEN << >> ELSE << population[i] >>)
         \o Remaining(population, remove_set, i + 1)

\* PopulationManager.inject_immigrants : the populations it can return
InjectImmigrants(population, pop_type, fraction) ==
  LET n_immigrants == ImmigrantCount(population, fraction)
      kept == Remaining(population, RemoveSet(population, n_immigrants), 1)
  IN  { kept \o immigrants : immigrants \in FreshIndividuals(n_immigrants, pop_type) }

\* the populations after every individual has been given its fitness
Evaluated(population) ==
  { [i \in 1..Len(population) |-> Individual(population[i].genes, values[i])] :
      values \in [1..Len(population) -> FitnessDraws] }


\* run, coevolution.py 71-72 : the initial populations, before the loop; the
\* loop is followed for one of the two populations
InitRun ==
  /\ SimIdle
  /\ AtkIdle
  /\ DefIdle
  /\ EvalIdle
  /\ OppIdle
  /\ StagIdle
  /\ CfgIdle
  /\ ScoreIdle
  /\ AssetIdle /\ LoopIdle /\ RollIdle /\ WebIdle
  /\ phase = "evaluate"
  /\ num_generations \in 0..MaxGenerations
  /\ gen = 0
  /\ followed \in {"attacker", "defender"}
  /\ pop \in FreshIndividuals(PopulationSize, followed)
  /\ hall_of_fame = << >>
  /\ history = << >>
  /\ on_generation \in BOOLEAN
  /\ calls = << >>

\* the sets atk_primary of record_generation in a generation where the
\* population followed is evaluated to `evaluated`: its own values for the
\* attackers, any values of the (equally many, all evaluated) attackers for
\* the defenders
AttackerPrimaries(evaluated) ==
  IF followed = "attacker"
    THEN { AttackerPrimary(evaluated) }
    ELSE (SUBSET FitnessDraws) \ { {} }

\* the callback called with the position of the generation counted from 1
OnGeneration_FromOne(generation, total, m) ==
  [generation |-> generation + 1, total |-> total, snapshot |-> m]

\* coevolution.py 155-156 : on_generation(gen, self.config.num_generations, m),
\* kept as the arguments of the call
OnGeneration(generation, total, m) ==
  [generation |-> generation, total |-> total, snapshot |-> m]

\* coevolution.py 95-156 : the first half of a pass of the loop: every
\* individual is evaluated, the generation is recorded and the hall of fame
\* is updated, and the callback, if there is one, is called.  The fitness
\* values are read by record_generation, by _update_hof and by the selection
\* only, and every offspring of the second half has a fresh fitness
\* object, so pop keeps the individuals as they were until the second half
\* replaces them.
Generation ==
  /\ phase = "evaluate"
  /\ gen < num_generations
  /\ phase' = "select"
  /\ \E evaluated \in Evaluated(pop) :
       /\ hall_of_fame' = UpdateHof(hall_of_fame, evaluated, followed)
       /\ \E atk_primary \in AttackerPrimaries(evaluated) :
            LET m == RecordGeneration(gen, atk_primary)
            IN  /\ history' = Append(history, m)
                /\ calls' = IF on_generation
                              THEN Append(calls, OnGeneration(gen, num_generations, m))
                              ELSE calls
  /\ UNCHANGED << num_generations, gen, followed, pop, on_generation, notRunVars >>

\* coevolution.py 158-179 : the second half: the offspring are selected and
\* varied, the elites are injected
Reproduce ==
  /\ phase = "select"
  /\ phase' = "diversity"
  /\ \E offspring \in FreshIndividuals(SelectedCount(pop, PopulationSize), followed) :
       pop' = InjectElites(offspring, hall_of_fame)
  /\ UNCHANGED << num_generations, gen, followed, hall_of_fame, history, on_generation, calls, notRunVars >>

\* coevolution.py 181-188 : stagnation is detected and the population gets
\* immigrants; the loop goes to the next generation
DiversityInjects ==
  /\ phase = "diversity"
  /\ DetectStagnation(history, StagnationWindow)
  /\ pop' \in InjectImmigrants(pop, followed, ImmigrantFraction)
  /\ gen' = gen + 1
  /\ phase' = "evaluate"
  /\ UNCHANGED << num_generations, followed, hall_of_fame, history, on_generation, calls, notRunVars >>

\* coevolution.py 181 : no stagnation; the loop goes to the next generation
DiversitySkips ==
  /\ phase = "diversity"
  /\ ~DetectStagnation(history, StagnationWindow)
  /\ gen' = gen + 1
  /\ phase' = "evaluate"
  /\ UNCHANGED << num_generations, followed, pop, hall_of_fame, history, on_generation, calls, notRunVars >>

\* coevolution.py 190-205 : the loop is over and run is over too: it returns
\* the result (or, when it is not quiet and the history is empty, stops at the
\* print of history[-1])
RunReturns ==
  /\ phase = "evaluate"
  /\ gen = num_generations
  /\ phase' = "done"
  /\ UNCHANGED << num_generations, gen, followed, pop, hall_of_fame, history, on_generation, calls, notRunVars >>

NextRun == Generation \/ Reproduce \/ DiversityInjects \/ DiversitySkips \/ RunReturns

SpecRun == InitRun /\ [][NextRun]_vars

\* Generation can be taken: the loop is at its head with a generation left
GenerationEnabled == phase = "evaluate" /\ gen < num_generations

\* run is sequential code: whatever step of the loop is enabled is taken.
\* The last conjunct is the weak fairness of Generation with its enabling
\* condition written out.
SpecRunFair ==
  /\ InitRun
  /\ [][NextRun]_vars
  /\ WF_vars(RunReturns)
  /\ WF_vars(Reproduce)
  /\ WF_vars(DiversitySkips)
  /\ WF_vars(DiversityInjects)
  /\ ([]<>~GenerationEnabled \/ []<><<Generation>>_vars)


\* ------------------------------------------------------------------------
\* Properties of the loop of run
\* ------------------------------------------------------------------------

C17_PopulationSizeKept ==
  phase \in {"evaluate", "done"} => Len(pop) = PopulationSize

\* C18: hall-of-fame elites survive into the next generation: at the start of
\* every generation after the first, each population contains, for each of the
\* top min(2, |HOF|) hall-of-fame members, an individual with the same genes,
\* whether or not stagnation triggered an immigrant injection.
C18_ElitesSurvive ==
  (phase = "evaluate" /\ gen >= 1 /\ gen < num_generations) =>
    \A i \in 1..Min(2, Len(hall_of_fame)) :
      \E k \in 1..Len(pop) : pop[k].genes = hall_of_fame[i].genes


\* ------------------------------------------------------------------------
\* The opponents of one individual (coevolution.py 97-134)
\* ------------------------------------------------------------------------

\* the largest config.matchups_per_eval of the runs
MaxMatchups == 3

\* the values of config.hof_opponent_fraction of the runs, in hundredths
HofFractions == {20, 50}

\* a member of `opponents`: the individual at a position of the opposing
\* population, or the member at a position of the opposing hall of fame
Opponent(source, index) == [source |-> source, index |-> index]

\* rng.sample(list, k) for a list of n elements: k positions of the list, all
\* different, in any order
Sample(n, k) ==
  { s \in [1..k -> 1..n] : \A i \in 1..k : \A j \in 1..k : i # j => s[i] # s[j] }

\* n_hof = max(1, int(matchups_per_eval * hof_opponent_fraction)); the
\* fraction is in hundredths and int() cuts a non-negative float to its floor
NHof(K, fraction) == Max(1, (K * fraction) \div 100)

\* opponents[: matchups_per_eval - len(hof_sample)] + hof_sample
MixOpponents(sampled, hof_sample, K) ==
  SubSeq(sampled, 1, Min(Len(sampled), K - Len(hof_sample))) \o hof_sample

\* the configuration and the sizes of the opposing population and hall of
\* fame when an individual is about to be evaluated
InitOpp ==
  /\ SimIdle
  /\ AtkIdle
  /\ DefIdle
  /\ EvalIdle
  /\ RunIdle
  /\ StagIdle
  /\ CfgIdle
  /\ ScoreIdle
  /\ AssetIdle /\ LoopIdle /\ RollIdle /\ WebIdle
  /\ matchups_per_eval \in 1..MaxMatchups
  /\ hof_opponent_fraction \in HofFractions
  /\ opp_population \in 1..(MaxMatchups + 1)
  /\ opp_hof \in 0..HallOfFameSize
  /\ opponents = << >>

\* coevolution.py 98-109 (attackers), 119-128 (defenders) : the opponents of
\* the individual are sampled from the opposing population and, when the
\* opposing hall of fame is not empty, mixed with a sample of it
ChooseOpponents ==
  /\ matchups_per_eval >= 1
  /\ opponents = << >>
  /\ \E s \in Sample(opp_population, Min(matchups_per_eval, opp_population)) :
       LET sampled == [i \in 1..Len(s) |-> Opponent("population", s[i])]
       IN  IF opp_hof > 0
           THEN \E h \in Sample(opp_hof, Min(NHof(matchups_per_eval, hof_opponent_fraction), opp_hof)) :
                  opponents' = MixOpponents(sampled,
                                            [i \in 1..Len(h) |-> Opponent("hof", h[i])],
                                            matchups_per_eval)
           ELSE opponents' = sampled
  /\ UNCHANGED << matchups_per_eval, hof_opponent_fraction, opp_population, opp_hof, notOppVars >>

NextOpp == ChooseOpponents

SpecOpp == InitOpp /\ [][NextOpp]_vars

\* the opponents that are members of the hall of fame
HofOpponents == { i \in 1..Len(opponents) : opponents[i].source = "hof" }

\* C19: each individual is scored on K = matchups_per_eval opponents
\* (population size >= K), and when the opposing hall of fame is non-empty
\* exactly ceil(K x hof_opponent_fraction) of them are hall-of-fame members
\* (when the hall of fame holds that many), the rest being drawn from the
\* opposing population.
C19_HofShareIsCeiling ==
  (opponents # << >> /\ opp_population >= matchups_per_eval) =>
    /\ Len(opponents) = matchups_per_eval
    /\ (opp_hof = 0 => HofOpponents = {})
    /\ (opp_hof >= 1 /\ opp_hof >= (matchups_per_eval * hof_opponent_fraction + 99) \div 100) =>
         Cardinality(HofOpponents) = (matchups_per_eval * hof_opponent_fraction + 99) \div 100


\* ------------------------------------------------------------------------
\* The stagnation detector (metrics.py 129-139)
\* ------------------------------------------------------------------------

\* the longest history of the collectors used on their own
MaxHistory == 3

\* the values of attacker_fitness_max in the records of those histories, in
\* tenths: 0.0, 0.5 and 1.0
MaxFitnessValues == {0, 5, 10}

\* the histories record_generation leaves after n calls, generation 0 first
HistoriesOf(n) ==
  { [i \in 1..n |-> RecordGeneration(i - 1, {values[i]})] :
      values \in [1..n -> MaxFitnessValues] }

\* a MetricsCollector after 0..MaxHistory calls of record_generation
InitStag ==
  /\ SimIdle
  /\ AtkIdle
  /\ DefIdle
  /\ EvalIdle
  /\ OppIdle
  /\ CfgIdle
  /\ ScoreIdle
  /\ AssetIdle /\ LoopIdle /\ RollIdle /\ WebIdle
  /\ phase = "idle"
  /\ num_generations = 0
  /\ gen = 0
  /\ followed = "none"
  /\ pop = << >>
  /\ hall_of_fame = << >>
  /\ on_generation = FALSE
  /\ calls = << >>
  /\ collector = TRUE
  /\ \E n \in 0..MaxHistory : history \in HistoriesOf(n)
  /\ stagnation_window = 0
  /\ stagnation = FALSE

\* metrics.py 129-139 : detect_stagnation(window) is called and returns
CollectorDetects ==
  /\ collector
  /\ \E w \in 1..MaxHistory :
       /\ stagnation_window' = w
       /\ stagnation' = DetectStagnation(history, w)
  /\ UNCHANGED << collector, simVars, atkVars, defVars, evalVars, runVars, oppVars, cfgVars, scoreVars, assetVars, loopVars, rollVars, webVars >>

NextStag == CollectorDetects

SpecStag == InitStag /\ [][NextStag]_vars

\* max(..) - min(..) of attacker_fitness_max over the last w records of the history
WindowSpread(w) ==
  LET vals == { history[i].attacker_fitness_max : i \in (Len(history) - w + 1)..Len(history) }
      hi == CHOOSE m \in vals : \A v \in vals : m >= v
      lo == CHOOSE m \in vals : \A v \in vals : m <= v
  IN  hi - lo

\* C20: for a history of at least W records, detect_stagnation(W) returns true
\* if and only if the largest and the smallest attacker max-fitness of the
\* last W records differ by 0.5 or less (a difference of exactly 0.5 counts as
\* stagnation).
C20_StagnationIffSpreadAtMostHalf ==
  (stagnation_window >= 1 /\ Len(history) >= stagnation_window) =>
    (stagnation = (WindowSpread(stagnation_window) <= 5))


\* ------------------------------------------------------------------------
\* The per-generation callback of run
\* ------------------------------------------------------------------------

\* C21: when a callback is supplied, run calls it exactly once per generation,
\* in increasing generation order, with (index, total generations, snapshot),
\* the snapshot being the record appended to the history for that generation;
\* the call for generation g comes after g's record and hall-of-fame update
\* and before g's selection and variation.
C21_CallbackOncePerGeneration ==
  on_generation =>
    /\ \A i \in 1..Len(calls) :
         /\ i <= Len(history)
         /\ calls[i] = [generation |-> i - 1, total |-> num_generations,
                        snapshot |-> history[i]]
    /\ (phase = "evaluate" => Len(calls) = gen)
    /\ (phase \in {"select", "diversity"} =>
          /\ Len(calls) = gen + 1
          /\ Len(history) = gen + 1
          /\ hall_of_fame # << >>)
    /\ (phase = "done" => Len(calls) = num_generations)

\* a run of two generations or more with a callback is over
C21_Witness ==
  /\ on_generation
  /\ phase = "done"
  /\ Len(calls) >= 2


\* ------------------------------------------------------------------------
\* Construction of the driver from a configuration (config.py 51-84,
\* coevolution.py 46-72)
\* ------------------------------------------------------------------------

\* the configurations handed to CoevolutionEngine: Config is a pydantic model
\* whose fields are plain int fields with defaults, so every int is accepted
Configs ==
  [population_size : 1..3, defender_budget : 1..6, num_generations : 1..2]

\* the configurations the specification calls out of range
OutOfRange(cfg) == cfg.defender_budget < 3 \/ cfg.population_size < 2

\* a configuration has been made; no engine yet
InitCfg ==
  /\ SimIdle
  /\ AtkIdle
  /\ DefIdle
  /\ EvalIdle
  /\ RunIdle
  /\ OppIdle
  /\ StagIdle
  /\ ScoreIdle
  /\ AssetIdle /\ LoopIdle /\ RollIdle /\ WebIdle
  /\ config \in Configs
  /\ driver = "none"
  /\ generations_run = 0

\* the variables the construction and the start of the driver leave alone
notCfgVars ==
  << simVars, atkVars, defVars, evalVars, runVars, oppVars, stagVars, scoreVars, assetVars, loopVars, rollVars, webVars >>

\* CoevolutionEngine.__init__ : the fields are assigned; the configuration is
\* stored as it is
EngineInit ==
  /\ driver = "none"
  /\ driver' = "constructed"
  /\ UNCHANGED << config, generations_run, notCfgVars >>

\* whether init_defender_population raises: create_random_defender calls
\* rng.randint(5, config.defender_budget), a ValueError for an empty range
PopulationRaises(cfg) == cfg.population_size >= 1 /\ cfg.defender_budget < 5

\* coevolution.py 71-72 : run creates the two initial populations
RunStarts ==
  /\ driver = "constructed"
  /\ driver' = IF PopulationRaises(config) THEN "raised" ELSE "running"
  /\ UNCHANGED << config, generations_run, notCfgVars >>

\* coevolution.py 95-188 : one pass of the loop of run
RunGeneration ==
  /\ driver = "running"
  /\ generations_run < config.num_generations
  /\ generations_run' = generations_run + 1
  /\ UNCHANGED << config, driver, notCfgVars >>

\* coevolution.py 190-205 : the loop is over, run returns
RunEnds ==
  /\ driver = "running"
  /\ generations_run = config.num_generations
  /\ driver' = "returned"
  /\ UNCHANGED << config, generations_run, notCfgVars >>

NextCfg == EngineInit \/ RunStarts \/ RunGeneration \/ RunEnds

SpecCfg == InitCfg /\ [][NextCfg]_vars

\* C22: constructing the driver with an out-of-range configuration (for
\* example defender_budget < 3 or population_size < 2) is rejected at
\* construction: no CoevolutionEngine is created and no generation is run with
\* such a configuration.
C22_OutOfRangeConfigRejected ==
  OutOfRange(config) => (driver = "none" /\ generations_run = 0)


\* ------------------------------------------------------------------------
\* aces/simulation/scoring.py and the efficiency of coevolution.py 135-140
\* ------------------------------------------------------------------------

\* ScoringWeights.host_criticality_multiplier
HostCriticalityMultiplier == 10

\* ScoringWeights.credential_value
CredentialValue == 3

\* ScoringWeights.exfiltration_bonus
ExfiltrationBonus == 50

\* ScoringWeights.kill_chain_length_value
KillChainLengthValue == 2

\* ScoringWeights.detection_value
DetectionValue == 10

\* ScoringWeights.no_exfil_bonus
NoExfilBonus == 30

\* the match results handed to the scoring functions: MatchResult is a plain
\* dataclass, and the functions read these fields of whatever result they are
\* given.  max_criticality_reached is in hundredths.
ScoredResults ==
  { [NewMatchResult EXCEPT
       !.hosts_compromised = hc, !.max_criticality_reached = crit,
       !.credentials_obtained = creds, !.data_exfiltrated = exfil,
       !.kill_chain_length = kcl, !.techniques_attempted = att,
       !.techniques_detected = det] :
      hc \in {0, 2}, crit \in {40, 90}, creds \in {0, 1}, exfil \in BOOLEAN,
      kcl \in {0, 2}, att \in {0, 2}, det \in {0, 1, 2} }

\* the results that are r but for max_criticality_reached and techniques_detected
Variants(r) ==
  { [r EXCEPT !.max_criticality_reached = crit, !.techniques_detected = det] :
      crit \in {40, 90}, det \in {0, 1, 2} }

\* the effectiveness of one result, in hundredths (scoring.py 31-36)
Effectiveness(r) ==
  r.max_criticality_reached * r.hosts_compromised * HostCriticalityMultiplier
    + r.credentials_obtained * CredentialValue * 100
    + (IF r.data_exfiltrated THEN ExfiltrationBonus * 100 ELSE 0)
    + r.kill_chain_length * KillChainLengthValue * 100

\* the stealth of one result, in hundredths (scoring.py 39-40); the division
\* is exact for the numbers of attempted techniques of ScoredResults
Stealth(r) ==
  100 - (r.techniques_detected * 100) \div Max(r.techniques_attempted, 1)

\* the sum of a list of numbers
RECURSIVE SumOf(_)
SumOf(values) ==
  IF values = << >> THEN 0 ELSE Head(values) + SumOf(Tail(values))

\* total += f(r) for r in results
TotalOf(results, f(_)) == SumOf([i \in 1..Len(results) |-> f(results[i])])

\* compute_attacker_fitness without the criticality term of the effectiveness
ComputeAttackerFitness_NoCriticality(results) ==
  LET flat(r) == Effectiveness([r EXCEPT !.max_criticality_reached = 0])
  IN  IF results = << >>
      THEN << 0, 0 >>
      ELSE << TotalOf(results, flat) \div Len(results),
              TotalOf(results, Stealth) \div Len(results) >>

\* compute_attacker_fitness : (effectiveness, stealth), in hundredths
ComputeAttackerFitness(results) ==
  IF results = << >>
  THEN << 0, 0 >>
  ELSE << TotalOf(results, Effectiveness) \div Len(results),
          TotalOf(results, Stealth) \div Len(results) >>

\* the coverage of one result, in hundredths (scoring.py 68-74)
Coverage(r) ==
  (r.techniques_detected * 50 * 100) \div Max(r.techniques_attempted, 1)
    + r.techniques_detected * DetectionValue * 100
    + (IF ~r.data_exfiltrated THEN NoExfilBonus * 100 ELSE 0)

\* compute_defender_fitness that scores the exfiltration bonus only
ComputeDefenderFitness_BonusOnly(results) ==
  LET bonus(r) == IF ~r.data_exfiltrated THEN NoExfilBonus * 100 ELSE 0
  IN  IF results = << >>
      THEN << 0, 0 >>
      ELSE << TotalOf(results, bonus) \div Len(results), 50 >>

\* compute_defender_fitness : (coverage, 0.5), in hundredths
ComputeDefenderFitness(results) ==
  IF results = << >>
  THEN << 0, 0 >>
  ELSE << TotalOf(results, Coverage) \div Len(results), 50 >>

\* DefenseGenome.total_false_positive_load, in thousandths
RECURSIVE TotalFalsePositiveLoad(_)
TotalFalsePositiveLoad(genes) ==
  IF genes = << >>
  THEN 0
  ELSE Head(genes).false_positive_rate + TotalFalsePositiveLoad(Tail(genes))

\* the efficiency taken from compute_defender_fitness, 0.5 for every genome
Efficiency_Half(genome) == << 1, 2 >>

\* coevolution.py 137-139 : efficiency = (1.0 / (1.0 + fp_load)) *
\* (1.0 - rules_ratio * 0.5) with rules_ratio = len(defender) /
\* max(defender.budget, 1), kept as the fraction << numerator, denominator >>
Efficiency(genome) ==
  LET fp_load == TotalFalsePositiveLoad(genome.genes)
      budget == Max(genome.budget, 1)
  IN  << 1000 * (2 * budget - Len(genome.genes)), (1000 + fp_load) * 2 * budget >>

\* a / b > c / d for fractions of positive denominator
FractionGreater(x, y) == x[1] * y[2] > y[1] * x[2]

\* a rule of the scored defenders, with its false-positive rate in thousandths
ScoredRule(technique, fp) == DetectionGene(technique, "signature", 80, fp, "alert_only")

\* the defender genomes that are evaluated: rule lists of 3, 4 and 5 rules with
\* the same false-positive load, one with another load, one with another budget
ScoredDefenders ==
  { DefenseGenome(<< ScoredRule("T1190", 40), ScoredRule("T1041", 30),
                     ScoredRule("T1005", 30) >>, 6),
    DefenseGenome(<< ScoredRule("T1190", 25), ScoredRule("T1041", 25),
                     ScoredRule("T1005", 25), ScoredRule("T1078", 25) >>, 6),
    DefenseGenome(<< ScoredRule("T1190", 20), ScoredRule("T1041", 20),
                     ScoredRule("T1005", 20), ScoredRule("T1078", 20),
                     ScoredRule("T1566.001", 20) >>, 6),
    DefenseGenome(<< ScoredRule("T1190", 50), ScoredRule("T1041", 50),
                     ScoredRule("T1005", 100) >>, 6),
    DefenseGenome(<< ScoredRule("T1190", 25), ScoredRule("T1041", 25),
                     ScoredRule("T1005", 25), ScoredRule("T1078", 25) >>, 8) }

\* two match results and two defender genomes are about to be scored
InitScore ==
  /\ SimIdle
  /\ AtkIdle
  /\ DefIdle
  /\ EvalIdle
  /\ RunIdle
  /\ OppIdle
  /\ StagIdle
  /\ CfgIdle
  /\ AssetIdle /\ LoopIdle /\ RollIdle /\ WebIdle
  /\ \E r \in ScoredResults : \E v \in Variants(r) : match_results = << r, v >>
  /\ genomes \in [1..2 -> ScoredDefenders]
  /\ attacker_fitness = << >>
  /\ defender_fitness = << >>

\* the variables the scoring leaves alone
notScoreVars ==
  << simVars, atkVars, defVars, evalVars, runVars, oppVars, stagVars, cfgVars, assetVars, loopVars, rollVars, webVars >>

\* coevolution.py 111-115 : attacker.fitness.values =
\* compute_attacker_fitness(results, config), for each of the two results
ScoreAttackers ==
  /\ match_results # << >>
  /\ attacker_fitness = << >>
  /\ attacker_fitness' =
       [i \in 1..2 |-> ComputeAttackerFitness(<< match_results[i] >>)]
  /\ UNCHANGED << match_results, genomes, defender_fitness, notScoreVars >>

\* coevolution.py 130-140 : fitness = compute_defender_fitness(results,
\* config); defender.fitness.values = (fitness[0], efficiency), for each of
\* the two defenders
ScoreDefenders ==
  /\ match_results # << >>
  /\ defender_fitness = << >>
  /\ defender_fitness' =
       [i \in 1..2 |->
          LET fitness == ComputeDefenderFitness(<< match_results[i] >>)
          IN  << fitness[1], Efficiency(genomes[i]) >>]
  /\ UNCHANGED << match_results, genomes, attacker_fitness, notScoreVars >>

NextScore == ScoreAttackers \/ ScoreDefenders

SpecScore == InitScore /\ [][NextScore]_vars


\* the two results agree on what C23 holds equal
SameAttackInputs ==
  /\ match_results[1].hosts_compromised = match_results[2].hosts_compromised
  /\ match_results[1].credentials_obtained = match_results[2].credentials_obtained
  /\ match_results[1].data_exfiltrated = match_results[2].data_exfiltrated
  /\ match_results[1].kill_chain_length = match_results[2].kill_chain_length

C24_MoreDetectedMoreCoverage ==
  (/\ defender_fitness # << >>
   /\ match_results[1].techniques_attempted = match_results[2].techniques_attempted
   /\ match_results[1].data_exfiltrated = match_results[2].data_exfiltrated
   /\ match_results[1].techniques_detected > match_results[2].techniques_detected)
    => defender_fitness[1][1] > defender_fitness[2][1]

\* two results of two attempted techniques, one with more detections, have
\* been scored for their defenders
C24_Witness ==
  /\ defender_fitness # << >>
  /\ match_results[1].techniques_attempted = 2
  /\ match_results[2].techniques_attempted = 2
  /\ match_results[1].techniques_detected = 2
  /\ match_results[2].techniques_detected = 1

\* the two defenders agree on false-positive load and budget
SameLoadAndBudget ==
  /\ TotalFalsePositiveLoad(genomes[1].genes) = TotalFalsePositiveLoad(genomes[2].genes)
  /\ genomes[1].budget = genomes[2].budget

\* C25: the efficiency assigned to a defender after evaluation depends only
\* on the genome (sum of false-positive rates, rule count, budget), not on any
\* match result, and for a fixed false-positive load and budget it strictly
\* decreases as the rule count grows.
C25_EfficiencyFromGenomeOnly ==
  (defender_fitness # << >> /\ SameLoadAndBudget) =>
    /\ (Len(genomes[1].genes) = Len(genomes[2].genes) =>
          defender_fitness[1][2] = defender_fitness[2][2])
    /\ (Len(genomes[1].genes) < Len(genomes[2].genes) =>
          FractionGreater(defender_fitness[1][2], defender_fitness[2][2]))

\* two defenders of the same load and budget, one with more rules, have been
\* evaluated on different match results
C25_Witness ==
  /\ defender_fitness # << >>
  /\ SameLoadAndBudget
  /\ Len(genomes[1].genes) < Len(genomes[2].genes)
  /\ match_results[1] # match_results[2]


\* ------------------------------------------------------------------------
\* NetworkGraph.harvest_credentials on its own (graph.py 94-105)
\* ------------------------------------------------------------------------

\* the hosts and the credentials of the graphs harvested here
GraphHosts == {"h1", "h2"}

GraphCreds == {"c1", "c2"}

\* the graphs add_host and add_credential can build from them: every host
\* with or without a credential cache, every credential valid on any of the hosts
Graphs ==
  [hosts : [GraphHosts -> [has_credential_cache : BOOLEAN]],
   credentials : [GraphCreds -> [valid_on : SUBSET GraphHosts]]]

\* a NetworkGraph has been built
InitHarvest ==
  /\ SimIdle
  /\ AtkIdle
  /\ DefIdle
  /\ EvalIdle
  /\ RunIdle
  /\ OppIdle
  /\ StagIdle
  /\ CfgIdle
  /\ ScoreIdle
  /\ LoopIdle /\ RollIdle /\ WebIdle
  /\ graph \in Graphs
  /\ harvest_host = "none"
  /\ harvested = {}
  /\ levels = << >>
  /\ comparisons = << >>

\* the variables the network assets leave alone
notAssetVars ==
  << simVars, atkVars, defVars, evalVars, runVars, oppVars, stagVars, cfgVars,
     scoreVars,
     loopVars, rollVars, webVars >>

\* graph.py 94-105 : harvest_credentials(host_id) is called for a registered
\* host and returns
HarvestCall ==
  /\ \E host_id \in DOMAIN graph.hosts :
       /\ harvest_host' = host_id
       /\ harvested' = HarvestFrom(graph.hosts, graph.credentials, host_id)
  /\ UNCHANGED << graph, levels, comparisons, notAssetVars >>

NextHarvest == HarvestCall

SpecHarvest == InitHarvest /\ [][NextHarvest]_vars

\* C26: for every host h and credential c registered in the network,
\* harvest_credentials(h) returns c if and only if h is in c.valid_on and h
\* has a credential cache; a host without a credential cache yields an empty
\* result.
C26_HarvestIffValidAndCached ==
  harvest_host # "none" =>
    /\ \A c \in DOMAIN graph.credentials :
         c \in harvested <=>
           /\ harvest_host \in graph.credentials[c].valid_on
           /\ graph.hosts[harvest_host].has_credential_cache
    /\ (~graph.hosts[harvest_host].has_credential_cache => harvested = {})

\* a host without a credential cache on which a credential is valid has been
\* harvested
C26_Witness ==
  /\ harvest_host # "none"
  /\ ~graph.hosts[harvest_host].has_credential_cache
  /\ \E c \in DOMAIN graph.credentials : harvest_host \in graph.credentials[c].valid_on
  /\ harvested = {}


\* ------------------------------------------------------------------------
\* PrivLevel on its own (assets.py 29-59)
\* ------------------------------------------------------------------------

\* the pairs of positions of `levels` that are compared
LevelPairs == { << 1, 2 >>, << 2, 3 >>, << 1, 3 >> }

\* three PrivLevel values have been picked
InitPriv ==
  /\ SimIdle
  /\ AtkIdle
  /\ DefIdle
  /\ EvalIdle
  /\ RunIdle
  /\ OppIdle
  /\ StagIdle
  /\ CfgIdle
  /\ ScoreIdle
  /\ LoopIdle /\ RollIdle /\ WebIdle
  /\ graph = [hosts |-> << >>, credentials |-> << >>]
  /\ harvest_host = "none"
  /\ harvested = {}
  /\ levels \in [1..3 -> PrivLevels]
  /\ comparisons = << >>

\* a < b, a <= b, a > b, a >= b by the four methods of PrivLevel; a == b and
\* a != b by Enum, for which two members are equal exactly when they are the
\* same member
SixComparisons(a, b) ==
  [lt |-> PrivLT(a, b), le |-> PrivLE(a, b), gt |-> PrivGT(a, b),
   ge |-> PrivGE(a, b), eq |-> (a = b), ne |-> (a # b)]

\* the six comparisons are evaluated for the pairs of the three levels
Compare ==
  /\ levels # << >>
  /\ comparisons = << >>
  /\ comparisons' = [p \in LevelPairs |-> SixComparisons(levels[p[1]], levels[p[2]])]
  /\ UNCHANGED << graph, harvest_host, harvested, levels, notAssetVars >>

NextPriv == Compare

SpecPriv == InitPriv /\ [][NextPriv]_vars

\* the number of the conditions of a set that hold
CountTrue(conditions) == Cardinality({ i \in DOMAIN conditions : conditions[i] })

\* C27: PrivLevel is a total order none < user < admin < system: for every
\* pair of levels the six comparisons are mutually consistent (exactly one of
\* a < b, a == b, a > b holds; a <= b iff not a > b; a >= b iff not a < b;
\* a != b iff not a == b) and transitive.
C27_PrivLevelTotalOrder ==
  comparisons # << >> =>
    /\ \A p \in LevelPairs :
         LET r == comparisons[p]
         IN  /\ CountTrue(<< r.lt, r.eq, r.gt >>) = 1
             /\ r.le = ~r.gt
             /\ r.ge = ~r.lt
             /\ r.ne = ~r.eq
    /\ (comparisons[<< 1, 2 >>].lt /\ comparisons[<< 2, 3 >>].lt
          => comparisons[<< 1, 3 >>].lt)
    /\ (comparisons[<< 1, 2 >>].le /\ comparisons[<< 2, 3 >>].le
          => comparisons[<< 1, 3 >>].le)
    /\ (levels = << "none", "user", "admin" >> => comparisons[<< 1, 2 >>].lt)
    /\ (levels = << "user", "admin", "system" >> =>
          comparisons[<< 1, 2 >>].lt /\ comparisons[<< 2, 3 >>].lt)

\* none, admin and system have been compared
C27_Witness ==
  /\ comparisons # << >>
  /\ levels = << "none", "admin", "system" >>
  /\ comparisons[<< 1, 2 >>].lt
  /\ comparisons[<< 2, 3 >>].lt

\* ------------------------------------------------------------------------
\* The fallback technique of a gene (engine.py 49-93)
\* ------------------------------------------------------------------------

\* the gene of the step being executed
StepGene == attacker'[Len(attacker')]

\* the step resolved a target for the gene's own technique and a precondition
\* of that technique does not hold on the target the step went on with
OwnPreconditionFails ==
  LET gene == StepGene
      tech == RegistryGet(gene.technique_id)
      e == LastEvent(state')
  IN /\ e.target_host \in ResolveTarget(gene, state, tech)
     /\ ~CheckPreconditions(tech, e.target_host, state)

\* C28: when a target has been resolved for the gene's technique and at least
\* one precondition of that technique does not hold on that target, the step
\* ends with outcome precondition-failure and no success roll, detection roll
\* or effect takes place, whether or not the gene names a fallback technique.
C28_PreconditionFailureEndsStep ==
  [][(StepTaken /\ OwnPreconditionFails) =>
       LET e == LastEvent(state')
       IN /\ e.outcome = "precondition_failure"
          /\ e.technique_id = StepGene.technique_id
          /\ e.effects = {}
          /\ [state' EXCEPT !.events = << >>] = [state EXCEPT !.events = << >>]]_vars

\* ------------------------------------------------------------------------
\* The attacker position (engine.py 168-174, 236-238, 372, 407)
\* ------------------------------------------------------------------------

\* a gain_foothold or move_laterally effect has been applied in the matchup:
\* the two effects are the only assignments of attacker_position
FootholdApplied(st) == st.attacker_position # NoHost

NeedsExternal(technique_id) ==
  HasPrecondition(RegistryGet(technique_id), "position_external")

\* C29: once a foothold or lateral-move effect has been applied in a matchup,
\* the attacker position never returns to external, and every later step whose
\* technique has the position-external precondition ends in
\* precondition-failure, no target being resolved for that technique.
C29_NoReturnToExternal ==
  [][(pc = "running" /\ pc' = "running" /\ FootholdApplied(state)) =>
       /\ FootholdApplied(state')
       /\ StepTaken =>
            LET e == LastEvent(state')
                gene == StepGene
            IN /\ NeedsExternal(e.technique_id) =>
                    /\ e.outcome = "precondition_failure"
                    /\ e.effects = {}
                    /\ ResolveTarget(gene, state, RegistryGet(e.technique_id)) = {}
               /\ (NeedsExternal(gene.technique_id) /\ gene.fallback_technique = "None") =>
                    /\ e.technique_id = gene.technique_id
                    /\ e.target_host = "none"]_vars

\* the attacker is inside after a foothold and the step of a technique with
\* the position-external precondition has just ended without a target
C29_Witness ==
  /\ pc = "running"
  /\ FootholdApplied(state)
  /\ Len(state.events) >= 2
  /\ \E i \in 1..(Len(state.events) - 1) :
        /\ state.events[i].outcome = "success"
        /\ HasEffect(RegistryGet(state.events[i].technique_id),
                     {"gain_foothold", "move_laterally"})
  /\ NeedsExternal(LastEvent(state).technique_id)
  /\ LastEvent(state).outcome = "precondition_failure"
  /\ LastEvent(state).target_host = "none"

\* ------------------------------------------------------------------------
\* Revoked credentials (engine.py 332-337, 268-275, 362-403)
\* ------------------------------------------------------------------------

\* the genes of the matchups with credentials: a harvest, a foothold without
\* a credential, a foothold and a lateral move with one
RevokeGenes ==
  { AttackGene("T1110.003", "specific_role", "workstation", "None", 0),
    AttackGene("T1566.001", "random_reachable", "None", "None", 0),
    AttackGene("T1078", "random_reachable", "None", "None", 0),
    AttackGene("T1021.002", "random_reachable", "None", "None", 0) }

\* a defender that answers with revoke_credential
RevokeDefenders ==
  { << DetectionGene("T1078", "correlation", 90, 5, "revoke_credential"),
       DetectionGene("T1110.003", "signature", 60, 5, "revoke_credential"),
       DetectionGene("T1021.002", "behavioral", 80, 10, "alert_only") >> }

\* rng.random() returns a low or a high value
RevokeDraws == {0, 99}

\* the number of genes of the attacker
MaxRevokeGenes == 4

RevokeStart == SimulateStartWith(RevokeDefenders) /\ UNCHANGED notSimVars

RevokeStep ==
  /\ Len(attacker) < MaxRevokeGenes
  /\ SimulateStepWith(RevokeGenes, RevokeDraws, RevokeDraws)
  /\ UNCHANGED notSimVars

RevokeFinish ==
  /\ Len(attacker) >= 2
  /\ SimulateReturn
  /\ UNCHANGED notSimVars

NextRevoke == RevokeStart \/ RevokeStep \/ RevokeFinish

SpecRevoke == Init /\ [][NextRevoke]_vars

\* the obtained credentials valid on the host
ObtainedValidOn(st, host_id) ==
  {c \in st.obtained_credentials : host_id \in CredTable[c].valid_on}

\* the step went past the precondition check with this technique
PastPreconditions(e) ==
  e.outcome \in {"success", "detected"} \/ e.effects = {"reason"}

\* C30: a detection answered by revoke-credential adds to the revoked set
\* every obtained credential valid on the target host; the revoked set never
\* shrinks, and from then on a revoked credential never satisfies the
\* credential-available precondition, never supplies the privilege of a
\* foothold or lateral move, and is never re-added by a later harvest, for
\* the rest of the matchup.
C30_RevokedStaysRevoked ==
  [][(pc = "running" /\ pc' = "running") =>
       /\ state.revoked_credentials \subseteq state'.revoked_credentials
       /\ state'.revoked_credentials \subseteq state'.obtained_credentials
       /\ (state'.obtained_credentials \ state.obtained_credentials)
             \cap state.revoked_credentials = {}
       /\ \A t \in HostIds \ {"external"} :
            \A p \in InheritedPrivileges(state, t, "user") :
               \/ p = "user"
               \/ \E c \in ObtainedValidOn(state, t) \ state.revoked_credentials :
                     CredTable[c].privilege = p
       /\ StepTaken =>
            LET e == LastEvent(state')
            IN /\ (e.outcome = "detected" /\ e.response_action = "revoke_credential") =>
                     state'.revoked_credentials =
                        state.revoked_credentials \cup ObtainedValidOn(state, e.target_host)
               /\ ~(e.outcome = "detected" /\ e.response_action = "revoke_credential") =>
                     state'.revoked_credentials = state.revoked_credentials
               /\ (PastPreconditions(e)
                     /\ HasPrecondition(RegistryGet(e.technique_id), "credential_available")) =>
                     ObtainedValidOn(state, e.target_host) \ state.revoked_credentials # {}]_vars

\* after a revocation, a foothold that only needs a credential has just
\* failed its precondition on a host where the obtained credentials are
\* all revoked
C30_Witness ==
  /\ pc = "running"
  /\ Len(state.events) >= 2
  /\ \E i \in 1..(Len(state.events) - 1) :
        /\ state.events[i].outcome = "detected"
        /\ state.events[i].response_action = "revoke_credential"
  /\ LET e == LastEvent(state)
     IN /\ e.technique_id = "T1078"
        /\ e.outcome = "precondition_failure"
        /\ e.target_host \in HostIds
        /\ ObtainedValidOn(state, e.target_host) # {}
        /\ ObtainedValidOn(state, e.target_host) \subseteq state.revoked_credentials

\* ------------------------------------------------------------------------
\* The frame of a detected step (engine.py 118-130, 323-341)
\* ------------------------------------------------------------------------

\* the simulation state without its event log
WithoutEvents(st) == [st EXCEPT !.events = << >>]

\* C31: a detected step changes the simulation state only through its
\* response action: alert-only, kill-process and block-traffic leave every
\* state component unchanged except the event log; isolate-host changes only
\* the isolated set (adding exactly the target); revoke-credential changes
\* only the revoked set.
C31_DetectedStepFrame ==
  [][(StepTaken /\ LastEvent(state').outcome = "detected") =>
       LET e == LastEvent(state')
           before == WithoutEvents(state)
           after == WithoutEvents(state')
       IN /\ state'.events = Append(state.events, e)
          /\ e.response_action \in {"alert_only", "kill_process", "block_traffic",
                                    "isolate_host", "revoke_credential"}
          /\ e.response_action \in {"alert_only", "kill_process", "block_traffic"} =>
               after = before
          /\ e.response_action = "isolate_host" =>
               after = [before EXCEPT !.isolated_hosts = @ \cup {e.target_host}]
          /\ e.response_action = "revoke_credential" =>
               [after EXCEPT !.revoked_credentials = {}]
                  = [before EXCEPT !.revoked_credentials = {}]]_vars

\* a step was detected and answered by kill-process and the last step, on a
\* compromised host, was detected and answered by isolate-host
C31_Witness ==
  /\ pc = "running"
  /\ Len(state.events) >= 2
  /\ \E i \in 1..(Len(state.events) - 1) :
        /\ state.events[i].outcome = "detected"
        /\ state.events[i].response_action = "kill_process"
  /\ LET e == LastEvent(state)
     IN /\ e.outcome = "detected"
        /\ e.response_action = "isolate_host"
        /\ e.target_host \in state.compromised_hosts \cap state.isolated_hosts

\* ------------------------------------------------------------------------
\* Isolated hosts as pivots (state.py 96-111)
\* ------------------------------------------------------------------------

\* the hosts the reachability computation starts from: the attacker's
\* position and the compromised hosts
Pivots(st) ==
  (IF st.attacker_position = NoHost THEN {"external"} ELSE {st.attacker_position})
     \cup st.compromised_hosts

\* the host is not held by the attacker, a pivot has an edge into it, and
\* every such pivot is isolated
OnlyFromIsolated(st, host_id) ==
  LET from == {p \in Pivots(st) : << p, host_id >> \in Edges}
  IN /\ host_id \notin st.compromised_hosts
     /\ from # {}
     /\ from \subseteq st.isolated_hosts

\* C32: isolating a host removes it from the reachability computation as a
\* pivot too: a host (not yet compromised) whose only incoming edges from the
\* attacker's position and the compromised hosts come from isolated hosts is
\* not in the reachable set and is never resolved as a target, even when the
\* isolated host is the attacker's current position.
C32_IsolatedHostIsNoPivot ==
  [][pc = "running" =>
       \A t \in HostIds :
          OnlyFromIsolated(state, t) =>
             /\ t \notin GetReachableHosts(state)
             /\ StepTaken => LastEvent(state').target_host # t]_vars

\* ------------------------------------------------------------------------
\* The loop of run with the individuals as objects
\* (coevolution.py 95-188, 207-274; population.py 56-152)
\* ------------------------------------------------------------------------

\* the largest config.num_generations of the runs followed object by object
MaxLoopGenerations == 2

\* the objects the heap has room for: two populations' worth (the selected
\* individuals and their offspring), the hall of fame, its clones
HeapSize == 2 * PopulationSize + 2 * HallOfFameSize + 2

\* the genomes of the objects: two of each kind, with different
\* hall-of-fame keys
LoopGenomes(pop_type) ==
  IF pop_type = "attacker"
    THEN { g \in RunAttackers : g[1].technique_id = "T1566.001" }
    ELSE { g \in RunDefenders : g[1].technique_detected = "T1190" }

\* the lists of n new individuals with a fresh fitness object
NewIndividuals(n, pop_type) ==
  [1..n -> { Individual(g, NoFitness) : g \in LoopGenomes(pop_type) }]

\* a slot of the heap that holds no object (the object is garbage)
NoObject == [genes |-> << >>, fitness |-> NoFitness]

\* the individuals a list of references points to
Deref(h, refs) == [i \in 1..Len(refs) |-> h[refs[i]]]

\* the n lowest free slots of the heap, in order
RECURSIVE NewObjects(_, _)
NewObjects(h, n) ==
  IF n = 0
    THEN << >>
    ELSE LET o == CHOOSE x \in DOMAIN h :
                     /\ h[x] = NoObject
                     /\ \A y \in DOMAIN h : h[y] = NoObject => x <= y
         IN << o >> \o NewObjects([h EXCEPT ![o] = Individual(<< 0 >>, NoFitness)], n - 1)

\* the objects no list refers to any more are dropped
Collect(h, roots) == [o \in DOMAIN h |-> IF o \in roots THEN h[o] ELSE NoObject]

\* h with the objects refs[i] set to values[i]
Store(h, refs, values) ==
  [o \in DOMAIN h |->
     IF \E i \in 1..Len(refs) : refs[i] = o
       THEN values[CHOOSE i \in 1..Len(refs) :
                      refs[i] = o /\ \A k \in 1..Len(refs) : refs[k] = o => k <= i]
       ELSE h[o]]

\* coevolution.py 111-115, 135-140 : ind.fitness.values = ... for every
\* individual of the list, written into the object the list refers to
EvaluateInPlace(h, refs, values) ==
  Store(h, refs, [i \in 1..Len(refs) |-> [h[refs[i]] EXCEPT !.fitness = values[i]]])

\* _inject_elites that puts the hall-of-fame member itself into the population
EliteObject_Shared(hof, i, clone) == hof[i]

\* coevolution.py 258-274 : population[i] = clone, a new object built from
\* copies of the genes of hof[i] and from its fitness values
EliteObject(hof, i, clone) == clone

\* the part of the loop body that follows; stagnation decides after the elites
PhaseAfter_HofLast(p) ==
  CASE p = "evaluate_attackers" -> "evaluate_defenders"
    [] p = "evaluate_defenders" -> "record"
    [] p = "record" -> "select"
    [] p = "select" -> "vary"
    [] p = "vary" -> "inject_elites"
    [] p = "inject_elites" -> "update_hof"
    [] p = "update_hof" -> "diversity"
    [] OTHER -> "evaluate_attackers"

\* coevolution.py 95-188 : the order of the statements of the loop body
PhaseAfter(p) ==
  CASE p = "evaluate_attackers" -> "evaluate_defenders"
    [] p = "evaluate_defenders" -> "record"
    [] p = "record" -> "update_hof"
    [] p = "update_hof" -> "select"
    [] p = "select" -> "vary"
    [] p = "vary" -> "inject_elites"
    [] p = "inject_elites" -> "diversity"
    [] OTHER -> "evaluate_attackers"

\* coevolution.py 71-72 : the initial population (of the kind followed), every
\* individual an object of its own with a fresh fitness
InitLoop ==
  /\ SimIdle
  /\ AtkIdle
  /\ DefIdle
  /\ EvalIdle
  /\ RunIdle
  /\ OppIdle
  /\ StagIdle
  /\ CfgIdle
  /\ ScoreIdle
  /\ AssetIdle
  /\ RollIdle /\ WebIdle
  /\ run_phase = "evaluate_attackers"
  /\ run_gen = 0
  /\ run_total \in 1..MaxLoopGenerations
  /\ run_followed \in {"attacker", "defender"}
  /\ members = [i \in 1..PopulationSize |-> i]
  /\ \E created \in NewIndividuals(PopulationSize, run_followed) :
       heap = [o \in 1..HeapSize |-> IF o <= PopulationSize THEN created[o] ELSE NoObject]
  /\ hof_members = << >>
  /\ run_history = << >>

notLoopVars ==
  << simVars, atkVars, defVars, evalVars, runVars, oppVars, stagVars, cfgVars,
     scoreVars, assetVars,
     rollVars, webVars >>

\* coevolution.py 97-115 : the attackers are evaluated; the fitness values are
\* written into the attackers
EvaluateAttackers ==
  /\ run_phase = "evaluate_attackers"
  /\ run_gen < run_total
  /\ run_phase' = PhaseAfter(run_phase)
  /\ IF run_followed = "attacker"
       THEN \E values \in [1..Len(members) -> FitnessDraws] :
               heap' = EvaluateInPlace(heap, members, values)
       ELSE heap' = heap
  /\ UNCHANGED << run_gen, run_total, run_followed, members, hof_members, run_history,
                  notLoopVars >>

\* coevolution.py 117-140 : the defenders are evaluated
EvaluateDefenders ==
  /\ run_phase = "evaluate_defenders"
  /\ run_phase' = PhaseAfter(run_phase)
  /\ IF run_followed = "defender"
       THEN \E values \in [1..Len(members) -> FitnessDraws] :
               heap' = EvaluateInPlace(heap, members, values)
       ELSE heap' = heap
  /\ UNCHANGED << run_gen, run_total, run_followed, members, hof_members, run_history,
                  notLoopVars >>

\* coevolution.py 143 : record_generation
RecordMetrics ==
  /\ run_phase = "record"
  /\ run_phase' = PhaseAfter(run_phase)
  /\ \E atk_primary \in (IF run_followed = "attacker"
                           THEN { AttackerPrimary(Deref(heap, members)) }
                           ELSE (SUBSET FitnessDraws) \ { {} }) :
       run_history' = Append(run_history, RecordGeneration(run_gen, atk_primary))
  /\ UNCHANGED << run_gen, run_total, run_followed, heap, members, hof_members,
                  notLoopVars >>

\* coevolution.py 146, 207-249 : _update_hof.  The members that stay are the
\* objects they were; every new member is a new object
UpdateHofObjects ==
  /\ run_phase = "update_hof"
  /\ run_phase' = PhaseAfter(run_phase)
  /\ LET old == Deref(heap, hof_members)
         new == UpdateHof(old, Deref(heap, members), run_followed)
         kept(j) == \E k \in 1..Len(old) :
                       Key(run_followed, old[k].genes) = Key(run_followed, new[j].genes)
         added == { j \in 1..Len(new) : ~kept(j) }
         clones == NewObjects(heap, Cardinality(added))
         object(j) ==
           IF kept(j)
             THEN hof_members[CHOOSE k \in 1..Len(old) :
                    Key(run_followed, old[k].genes) = Key(run_followed, new[j].genes)]
             ELSE clones[Cardinality({ a \in added : a <= j })]
         refs == [j \in 1..Len(new) |-> object(j)]
         stored == [o \in DOMAIN heap |->
                      IF \E j \in added : object(j) = o
                        THEN new[CHOOSE j \in added : object(j) = o]
                        ELSE heap[o]]
     IN /\ hof_members' = refs
        /\ heap' = Collect(stored, Range(refs) \cup Range(members))
  /\ UNCHANGED << run_gen, run_total, run_followed, members, run_history, notLoopVars >>

\* coevolution.py 159, 170 : select_nsga2(population, population_size); the
\* selected individuals are objects of the population
SelectObjects ==
  /\ run_phase = "select"
  /\ run_phase' = PhaseAfter(run_phase)
  /\ \E chosen \in { c \in SUBSET (1..Len(members)) :
                        Cardinality(c) = SelectedCount(members, PopulationSize) } :
       members' = Remaining(members, (1..Len(members)) \ chosen, 1)
  /\ heap' = Collect(heap, Range(members') \cup Range(hof_members))
  /\ UNCHANGED << run_gen, run_total, run_followed, hof_members, run_history, notLoopVars >>

\* coevolution.py 160-177, population.py 56-123 : vary_attackers /
\* vary_defenders.  Every offspring is a new object with a fresh fitness: a
\* clone of a selected individual, or what the operators made of clones
VaryObjects ==
  /\ run_phase = "vary"
  /\ run_phase' = PhaseAfter(run_phase)
  /\ \E offspring \in NewIndividuals(Len(members), run_followed) :
       LET objects == NewObjects(heap, Len(members))
       IN /\ members' = objects
          /\ heap' = Collect(Store(heap, objects, offspring),
                             Range(objects) \cup Range(hof_members))
  /\ UNCHANGED << run_gen, run_total, run_followed, hof_members, run_history, notLoopVars >>

\* coevolution.py 178-179, 251-274 : _inject_elites
InjectEliteObjects ==
  /\ run_phase = "inject_elites"
  /\ run_phase' = PhaseAfter(run_phase)
  /\ LET n_elites == Min(Min(2, Len(hof_members)), Len(members))
         clones == NewObjects(heap, n_elites)
         stored == Store(heap, clones,
                         [i \in 1..n_elites |->
                            Individual(heap[hof_members[i]].genes,
                                       heap[hof_members[i]].fitness)])
     IN /\ members' = [i \in 1..Len(members) |->
                         IF i <= n_elites
                           THEN EliteObject(hof_members, i, clones[i])
                           ELSE members[i]]
        /\ heap' = Collect(stored, Range(members') \cup Range(hof_members))
  /\ UNCHANGED << run_gen, run_total, run_followed, hof_members, run_history, notLoopVars >>

\* coevolution.py 181-188, population.py 125-152 : stagnation is detected and
\* inject_immigrants replaces the population; the immigrants are new objects
ImmigrantObjects ==
  /\ run_phase = "diversity"
  /\ DetectStagnation(run_history, StagnationWindow)
  /\ run_phase' = PhaseAfter(run_phase)
  /\ run_gen' = run_gen + 1
  /\ LET n_immigrants == ImmigrantCount(members, ImmigrantFraction)
         kept == Remaining(members, RemoveSet(Deref(heap, members), n_immigrants), 1)
         collected == Collect(heap, Range(kept) \cup Range(hof_members))
         objects == NewObjects(collected, n_immigrants)
     IN \E immigrants \in NewIndividuals(n_immigrants, run_followed) :
          /\ members' = kept \o objects
          /\ heap' = Store(collected, objects, immigrants)
  /\ UNCHANGED << run_total, run_followed, hof_members, run_history, notLoopVars >>

\* coevolution.py 181 : no stagnation
NoImmigrants ==
  /\ run_phase = "diversity"
  /\ ~DetectStagnation(run_history, StagnationWindow)
  /\ run_phase' = PhaseAfter(run_phase)
  /\ run_gen' = run_gen + 1
  /\ UNCHANGED << run_total, run_followed, heap, members, hof_members, run_history,
                  notLoopVars >>

\* coevolution.py 190-205 : the loop is over, run returns
LoopReturns ==
  /\ run_phase = "evaluate_attackers"
  /\ run_gen = run_total
  /\ run_phase' = "done"
  /\ UNCHANGED << run_gen, run_total, run_followed, heap, members, hof_members,
                  run_history, notLoopVars >>

NextLoop ==
  \/ EvaluateAttackers
  \/ EvaluateDefenders
  \/ RecordMetrics
  \/ UpdateHofObjects
  \/ SelectObjects
  \/ VaryObjects
  \/ InjectEliteObjects
  \/ ImmigrantObjects
  \/ NoImmigrants
  \/ LoopReturns

SpecLoop == InitLoop /\ [][NextLoop]_vars

\* C33: hall-of-fame members are independent clones: no member is an object
\* of the population, and once inserted a member's gene sequence and stored
\* fitness never change while it stays in the hall of fame, whatever
\* evaluation, crossover, mutation, elitism or immigrant injection later does
\* to the populations (including to the elite clones copied from it).
C33_HofMembersIndependent ==
  [][/\ Range(hof_members) \cap Range(members) = {}
     /\ \A o \in Range(hof_members) :
           o \in Range(hof_members') => heap'[o] = heap[o]]_vars

\* an elite clone of the top member has been evaluated to another fitness
\* than the one the member keeps
C33_Witness ==
  /\ run_phase = "record"
  /\ run_gen >= 1
  /\ Len(hof_members) >= 1
  /\ Len(members) >= 1
  /\ heap[members[1]].genes = heap[hof_members[1]].genes
  /\ heap[members[1]].fitness # heap[hof_members[1]].fitness

\* the parts of the loop body in the order of the claim
PhaseOrder ==
  << "evaluate_attackers", "evaluate_defenders", "record", "update_hof",
     "select", "vary", "inject_elites", "diversity" >>

PhaseIndex(p) == CHOOSE i \in 1..Len(PhaseOrder) : PhaseOrder[i] = p

\* C34: within every generation the phases run in the order: evaluate all
\* attackers, evaluate all defenders, record metrics, update hall of fame,
\* select, vary, inject elites, then (only if stagnation is detected) inject
\* immigrants; the hall of fame is modified only in the update phase, after
\* both evaluations of the generation and before variation starts.
C34_PhaseOrder ==
  [][run_phase' # run_phase =>
       /\ \/ /\ run_phase = "evaluate_attackers"
             /\ run_phase' = "done"
             /\ run_gen = run_total
          \/ /\ run_phase = "diversity"
             /\ run_phase' = "evaluate_attackers"
             /\ run_gen' = run_gen + 1
          \/ /\ run_phase \in Range(PhaseOrder) \ {"diversity"}
             /\ run_phase' \in Range(PhaseOrder)
             /\ PhaseIndex(run_phase') = PhaseIndex(run_phase) + 1
             /\ run_gen' = run_gen
             /\ run_gen < run_total
       /\ (hof_members' # hof_members
             \/ Deref(heap', hof_members') # Deref(heap, hof_members)) =>
            /\ run_phase = "update_hof"
            /\ Len(run_history) = run_gen + 1
       /\ members' # members => run_phase \in {"select", "vary", "inject_elites", "diversity"}
       /\ (run_phase = "diversity" /\ members' # members) =>
            DetectStagnation(run_history, StagnationWindow)
       /\ run_history' # run_history => run_phase = "record"]_vars

\* the second pass of the loop ended with immigrants after a stagnation, the
\* hall of fame having been filled in the update phases
C34_Witness ==
  /\ run_phase = "evaluate_attackers"
  /\ run_gen = 2
  /\ Len(run_history) = 2
  /\ DetectStagnation(run_history, StagnationWindow)
  /\ Len(hof_members) >= 1
  /\ \E i \in 1..Len(members) : ~Valid(heap[members[i]])

\* ------------------------------------------------------------------------
\* The success roll (engine.py 95-105)
\* ------------------------------------------------------------------------

\* the base success rates of the registry, and 0, in hundredths
RollRates == { TechniqueList[i].base_success_rate : i \in 1..Len(TechniqueList) } \cup {0}

\* the values rng.random() returns, in hundredths: 0.0 <= u < 1.0
RollDraws == 0..99

InitRoll ==
  /\ SimIdle
  /\ AtkIdle
  /\ DefIdle
  /\ EvalIdle
  /\ RunIdle
  /\ OppIdle
  /\ StagIdle
  /\ CfgIdle
  /\ ScoreIdle
  /\ AssetIdle
  /\ LoopIdle
  /\ WebIdle
  /\ roll_rate \in RollRates
  /\ roll_draw \in RollDraws
  /\ roll_outcome = "pending"

notRollVars ==
  << simVars, atkVars, defVars, evalVars, runVars, oppVars, stagVars, cfgVars,
     scoreVars, assetVars, loopVars,
     webVars >>

\* engine.py 95-105 : the roll of a step whose technique has the rate
\* roll_rate, for the draw roll_draw
SuccessRoll ==
  /\ roll_outcome = "pending"
  /\ roll_outcome' = IF RollPasses(roll_draw, roll_rate) THEN "passed" ELSE "failed"
  /\ UNCHANGED << roll_rate, roll_draw, notRollVars >>

NextRoll == SuccessRoll

SpecRoll == InitRoll /\ [][NextRoll]_vars

\* C35: the success roll of a step succeeds if and only if the drawn value u
\* in [0,1) is strictly less than the executed technique's base success rate;
\* a draw equal to the base success rate fails, and a technique with base
\* success rate 0 never succeeds.
C35_RollSucceedsIffBelowRate ==
  roll_outcome \in {"passed", "failed"} =>
     /\ roll_outcome = "passed" <=> roll_draw < roll_rate
     /\ roll_draw = roll_rate => roll_outcome = "failed"
     /\ roll_rate = 0 => roll_outcome = "failed"

\* ------------------------------------------------------------------------
\* The attacker position and the compromised set (engine.py 355-409)
\* ------------------------------------------------------------------------

\* C36: in every reachable state of a matchup the attacker position is
\* external if and only if the compromised set is empty, and whenever the
\* position is a host that host is in the compromised set; every host in the
\* compromised set has privilege level at least user.
C36_PositionAndCompromisedSet ==
  /\ state.attacker_position = NoHost <=> state.compromised_hosts = {}
  /\ state.attacker_position # NoHost =>
        state.attacker_position \in state.compromised_hosts
  /\ \A h \in state.compromised_hosts :
        /\ PrivGE(state.network.hosts[h].privilege_level, "user")
        /\ PrivGE(GetAttackerPrivilege(state, h), "user")

\* the attacker holds two hosts and stands on the one taken by a lateral move
C36_Witness ==
  /\ pc = "running"
  /\ Cardinality(state.compromised_hosts) = 2
  /\ state.attacker_position \in state.compromised_hosts
  /\ LastEvent(state).outcome = "success"
  /\ HasEffect(RegistryGet(LastEvent(state).technique_id), {"move_laterally"})
  /\ LastEvent(state).target_host = state.attacker_position

\* ------------------------------------------------------------------------
\* The order of staging and exfiltration
\* (techniques.py 667-716, engine.py 244-299, 411-436)
\* ------------------------------------------------------------------------

\* an earlier successful step of the matchup, at position j of the log,
\* staged data on the host, and the host was compromised by a step before it
StagedAfterCompromise(events, host_id) ==
  \E j \in 1..Len(events) :
     /\ events[j].outcome = "success"
     /\ events[j].target_host = host_id
     /\ "data_staged" \in events[j].effects
     /\ \E i \in 1..(j - 1) :
           /\ events[i].outcome = "success"
           /\ events[i].target_host = host_id
           /\ "compromised" \in events[i].effects \/ "moved_to" \in events[i].effects

\* C37: kill-chain ordering of exfiltration: a step that sets data_exfiltrated
\* succeeds on a host h only if an earlier successful step of the same
\* matchup staged data on h and h was compromised before that; once
\* data_exfiltrated is true it stays true for the rest of the matchup.
C37_ExfiltrationAfterStaging ==
  [][(pc = "running" /\ pc' = "running") =>
       /\ state.data_exfiltrated => state'.data_exfiltrated
       /\ StepTaken =>
            LET e == LastEvent(state')
            IN /\ (state'.data_exfiltrated /\ ~state.data_exfiltrated) =>
                    (e.outcome = "success" /\ "exfiltrated" \in e.effects)
               /\ (e.outcome = "success" /\ "exfiltrated" \in e.effects) =>
                    /\ state'.data_exfiltrated
                    /\ e.target_host \in state.compromised_hosts
                    /\ state.network.hosts[e.target_host].data_staged
                    /\ StagedAfterCompromise(state.events, e.target_host)]_vars

\* data has just been exfiltrated from a host, two steps after its compromise
C37_Witness ==
  /\ pc = "running"
  /\ state.data_exfiltrated
  /\ Len(state.events) >= 3
  /\ LastEvent(state).outcome = "success"
  /\ "exfiltrated" \in LastEvent(state).effects
  /\ StagedAfterCompromise(state.events, LastEvent(state).target_host)

\* ------------------------------------------------------------------------
\* Where credentials are harvested (engine.py 383-389, 180-197,
\* techniques.py 481-492)
\* ------------------------------------------------------------------------

\* C38: credentials are only harvested from compromised hosts: whenever a
\* harvest-credentials effect adds a credential to the obtained set, the host
\* it was harvested on is in the compromised set at that step.
C38_HarvestOnlyFromCompromised ==
  [][(StepTaken /\ state'.obtained_credentials # state.obtained_credentials) =>
       /\ LastEvent(state').outcome = "success"
       /\ LastEvent(state').target_host \in state.compromised_hosts]_vars

\* ------------------------------------------------------------------------
\* The hall of fame over the generations (coevolution.py 207-249)
\* ------------------------------------------------------------------------

\* C39: over the generations of a run, the primary-objective value of the top
\* hall-of-fame member never decreases, and once a hall of fame is full the
\* primary-objective value of its last (worst) member never decreases either.
C39_HofValuesNeverDecrease ==
  [][/\ hall_of_fame # << >> =>
          /\ hall_of_fame' # << >>
          /\ hall_of_fame'[1].fitness >= hall_of_fame[1].fitness
     /\ Len(hall_of_fame) = HallOfFameSize =>
          /\ Len(hall_of_fame') = HallOfFameSize
          /\ hall_of_fame'[HallOfFameSize].fitness >=
               hall_of_fame[HallOfFameSize].fitness]_vars

\* the attackers' best value was 0 in the first generation, and a later
\* update has left a full hall of fame whose members are all above it
C39_Witness ==
  /\ followed = "attacker"
  /\ phase = "diversity"
  /\ gen >= 1
  /\ history[1].attacker_fitness_max = 0
  /\ Len(hall_of_fame) = HallOfFameSize
  /\ hall_of_fame[HallOfFameSize].fitness > 0

\* ------------------------------------------------------------------------
\* The web server: POST /api/run (server.py 67-142, 181-267, 656-659)
\* ------------------------------------------------------------------------

\* the POST /api/run requests a server receives
MaxRequests == 3

Requests == 1..MaxRequests

InitWeb ==
  /\ SimIdle
  /\ AtkIdle
  /\ DefIdle
  /\ EvalIdle
  /\ RunIdle
  /\ OppIdle
  /\ StagIdle
  /\ CfgIdle
  /\ ScoreIdle
  /\ AssetIdle
  /\ LoopIdle
  /\ RollIdle
  /\ web_running = FALSE
  /\ handler_pc = [r \in Requests |-> "waiting"]
  /\ response = [r \in Requests |-> 0]
  /\ sim_thread = [r \in Requests |-> "none"]

notWebVars ==
  << simVars, atkVars, defVars, evalVars, runVars, oppVars, stagVars, cfgVars,
     scoreVars, assetVars, loopVars, rollVars >>

\* server.py 181-184, 656-659 : the ThreadingHTTPServer gives the request a
\* handler thread of its own, and do_POST calls _handle_run
PostArrives(r) ==
  /\ handler_pc[r] = "waiting"
  /\ handler_pc' = [handler_pc EXCEPT ![r] = "check"]
  /\ UNCHANGED << web_running, response, sim_thread, notWebVars >>

\* server.py 233-235 : the handler reads _state.running; when it is set the
\* request is answered with 409
HandleRunChecks(r) ==
  /\ handler_pc[r] = "check"
  /\ IF web_running
       THEN /\ response' = [response EXCEPT ![r] = 409]
            /\ handler_pc' = [handler_pc EXCEPT ![r] = "done"]
       ELSE /\ response' = response
            /\ handler_pc' = [handler_pc EXCEPT ![r] = "start"]
  /\ UNCHANGED << web_running, sim_thread, notWebVars >>

\* server.py 237-267 : the body is read and parsed (400 for a body that is no
\* JSON); the background thread is started and the request is answered
HandleRunStarts(r) ==
  /\ handler_pc[r] = "start"
  /\ handler_pc' = [handler_pc EXCEPT ![r] = "done"]
  /\ \E valid_json \in BOOLEAN :
       IF valid_json
         THEN /\ sim_thread' = [sim_thread EXCEPT ![r] = "started"]
              /\ response' = [response EXCEPT ![r] = 200]
         ELSE /\ sim_thread' = sim_thread
              /\ response' = [response EXCEPT ![r] = 400]
  /\ UNCHANGED << web_running, notWebVars >>

\* server.py 67-76 : the background thread begins _run_simulation and sets
\* _state.running
RunSimulationBegins(r) ==
  /\ sim_thread[r] = "started"
  /\ sim_thread' = [sim_thread EXCEPT ![r] = "running"]
  /\ web_running' = TRUE
  /\ UNCHANGED << handler_pc, response, notWebVars >>

\* server.py 80-142 : the run is over (complete or in error) and the finally
\* clause clears _state.running
RunSimulationEnds(r) ==
  /\ sim_thread[r] = "running"
  /\ sim_thread' = [sim_thread EXCEPT ![r] = "finished"]
  /\ web_running' = FALSE
  /\ UNCHANGED << handler_pc, response, notWebVars >>

NextWeb ==
  \E r \in Requests :
     \/ PostArrives(r)
     \/ HandleRunChecks(r)
     \/ HandleRunStarts(r)
     \/ RunSimulationBegins(r)
     \/ RunSimulationEnds(r)

SpecWeb == InitWeb /\ [][NextWeb]_vars

\* the background runs that are starting or in progress
ActiveRuns == { r \in Requests : sim_thread[r] \in {"started", "running"} }

\* C40: the web server runs at most one simulation at a time: for every
\* interleaving of concurrent POST /api/run requests, while a run is starting
\* or in progress every further POST /api/run is answered with 409 and starts
\* no second background run.
C40_AtMostOneSimulation ==
  Cardinality(ActiveRuns) <= 1

====
